---------------------------- MODULE Spec2Model ----------------------------
(***************************************************************************)
(* Verification model of the C5 compiler core (c5c): semantic analyzer,    *)
(* peephole optimizer, include/namespace resolver, struct layout and the   *)
(* run-time behaviour of the code emitted for dynamic arrays.              *)
(*                                                                         *)
(* Each subsystem has its own variables and its own specification; a       *)
(* subsystem's specification leaves the variables of the others idle.      *)
(***************************************************************************)
EXTENDS Integers, Naturals, Sequences, FiniteSets, TLC

(***************************************************************************)
(* State                                                                   *)
(***************************************************************************)
\* analysis of one local declaration  T x = init;
VARIABLES rc_desc,     \* the declared type as written: modifiers, base, width
          rc_decl,     \* the var_decl node: [ty, init]
          rc_errors,   \* codes of the errors recorded (self.errors)
          rc_pc        \* "decl" before, "done" after _analyze_node(var_decl)

\* two successive calls of Optimizer.optimize_asm
VARIABLES opt_input,    \* the list given to the first call
          opt_lines,    \* asm_lines of the running call
          opt_changed,  \* changed
          opt_call,     \* 1: optimize_asm(L), 2: optimize_asm of its result
          opt_first,    \* what the first call returned
          opt_passes,   \* passes of the running call so far
          opt_pc        \* "loop" | "done"

\* the array object of  array<T> a;  and the machine state around it
VARIABLES arr_ty,      \* the element type T
          arr_data,    \* the data pointer: [null, cells]
          arr_len,     \* the length field
          arr_cap,     \* the capacity field
          arr_rax,     \* %rax after the last method call
          arr_pc,      \* "run", or "segv" once the process died
          arr_op,      \* the method called last
          arr_grew,    \* whether that call reached realloc
          arr_oob,     \* whether an access outside the block was made
          arr_pushed,  \* the values pushed and not popped or cleared since
          arr_npush,   \* pushes made
          arr_ops      \* method calls made

\* code generation for one function body, the body being produced statement
\* by statement as gen_stmt walks it
VARIABLES cg_stack,          \* the gen_stmt / gen_expr calls in progress, outermost first
          cg_break_targets,  \* self.break_targets (numbers of the end labels)
          cg_label_count,    \* self.label_count
          cg_lambda_count,   \* self.lambda_count
          cg_cur,            \* the text self.text is: 0 the function, k > 0 __lambda_k
          cg_texts,          \* the lines emitted so far into each text
          cg_nodes,          \* statements generated so far
          cg_pc              \* "gen" | "done" | "raised"

\* semantic analysis of one function body, the body being produced statement
\* by statement as _analyze_node walks it
VARIABLES bc_stack,          \* the _analyze_node calls in progress (node tags), outermost first
          bc_break_context,  \* self.break_context
          bc_errors,         \* self.errors: [code, loc]
          bc_unenclosed,     \* locs of the breaks no loop or switch of their function encloses
          bc_nodes,          \* statements analyzed so far (the loc of the next one)
          bc_pc              \* "walk" | "done"

\* one run of SemanticAnalyzer.analyze(ast, require_main, show_warnings)
VARIABLES an_ast,            \* the top-level nodes, each as what its handler does
          an_scan,           \* what _scan_declarations does: [errors, has_main]
          an_require_main,   \* require_main
          an_show_warnings,  \* show_warnings
          an_final,          \* warnings of the final checks (W001, W008)
          an_i,              \* top-level nodes analyzed so far
          an_errors,         \* self.errors
          an_warnings,       \* self.warnings
          an_stdout,         \* the lines printed
          an_pc              \* "scan" | "nodes" | "final" | "report" | "returned" | "exited" | "raised"

\* one run of compile_file on a user file that includes the header h.c5h
VARIABLES ns_header,    \* the top-level declarations of the header: [tag, name]
          ns_user,      \* the top-level declarations of the user file
          ns_use,       \* the use written in the user's main, as parsed
          ns_ast,       \* new_ast / final_ast: declarations [tag, name, origin]
          ns_expanded,  \* the key of the macro the use was expanded from, or ""
          ns_result,    \* what the use resolved to: [table, key]
          ns_pc         \* "include" | "expand" | "analyze" | "done"

\* the first loop of CodeGen.generate over the struct declarations of a program
VARIABLES st_program,  \* the struct_decl nodes in source order: [name, fields]
          st_structs,  \* self.structs: name -> [size, fields]
          st_i         \* struct_decl nodes handled so far

\* one call of SemanticAnalyzer._types_compatible
VARIABLES tc_target,   \* target_type
          tc_source,   \* source_type
          tc_pc,       \* "call" before the call, "done" after it, "idle" elsewhere
          tc_result    \* the value returned

\* the analyzer's scope stack during the walk over one function
VARIABLES sc_scopes,   \* self.scopes: a stack of maps name -> type
          sc_stack,    \* the open constructs: [kind, entry, declared]
          sc_errors,   \* self.errors as a set of [code, name, loc]
          sc_op,       \* the node analyzed last: [tag, name]
          sc_nodes,    \* nodes analyzed so far; a node's loc is its number
          sc_pc        \* "scan", "walk", "done", or "idle"

\* compilation of a program whose one global is  let T g = v;
VARIABLES gv_decl,     \* the pub_var node: [desc, ty, val]
          gv_scope0,   \* the analyzer's scopes[0]
          gv_errors,   \* the analyzer's errors (codes)
          gv_data,     \* the code generator's data section for g
          gv_pc        \* "scan", "analyze", "report", "gen", "exit", "done", "idle"

\* CodeGen.gen_func on one function
VARIABLES fn_name,         \* the function's name
          fn_text,         \* self.text from the function's label on
          fn_stack,        \* the open if / while statements: [kind, n, else_body]
          fn_has_return,   \* self.func_has_return
          fn_label_count,  \* self.label_count
          fn_stmts,        \* statements generated so far
          fn_body_end,     \* Len(fn_text) when the last body statement was done
          fn_pc            \* "start", "body", "done", or "idle"

\* one switch statement: its generation and the execution of the emitted text
VARIABLES sw_node,     \* the switch_stmt node: [cases, default_body]
          sw_value,    \* the value of the scrutinee
          sw_label_count, \* self.label_count
          sw_text,     \* the lines emitted for the statement
          sw_ip,       \* the line executed next
          sw_rax,      \* %rax
          sw_zf,       \* the zero flag
          sw_trace,    \* the body statements executed, by case index
          sw_pc        \* "gen", "run", "end", "returned", or "idle"

\* one foreach statement: its generation and the execution of the emitted text
VARIABLES fe_node,     \* [global, body]: is the array a a global; the body statement
          fe_a0,       \* the elements of a when the loop starts
          fe_mem,      \* the arrays in memory: a and the global b, each [len, data]
          fe_text,     \* the lines emitted for the statement
          fe_body_at,  \* the index in fe_text of the first line after the element copy
          fe_ip,       \* the line executed next
          fe_reg,      \* the registers rax, rcx, r11, r12 and the flag ge
          fe_index,    \* the index slot
          fe_value,    \* the value slot
          fe_trace,    \* [i, v] on each arrival at the body
          fe_pc        \* "gen", "run", "end", "cut", or "idle"

\* the window push A; mov X, B; pop C before and after optimize_asm
VARIABLES pw_lines,    \* the three lines given to optimize_asm
          pw_out,      \* the lines it returns
          pw_ip,       \* the line executed next, in the text being executed
          pw_regs,     \* the registers while the original lines execute
          pw_stack,    \* the stack while the original lines execute
          pw_regs2,    \* the registers while the returned lines execute
          pw_stack2,   \* the stack while the returned lines execute
          pw_pc        \* "optimize", "original", "optimized", "done", or "idle"

\* a call f(a_1, ..., a_n) and the parameter binding of f
VARIABLES ca_args,     \* the argument kinds ("int", "float", "struct", "init") in source order
          ca_struct,   \* the 8-byte words of the caller's struct variable
          ca_text,     \* the emitted lines: the call, then f's parameter binding
          ca_ip,       \* the line executed next
          ca_regs,     \* the registers
          ca_stack,    \* the stack, top last
          ca_order,    \* the arguments in the order their code was executed
          ca_locals,   \* f's parameter slots, one sequence of words each
          ca_pc        \* "gen_call", "gen_func", "exec", "done", or "idle"

\* _scan_declarations over struct, function and type-alias declarations
VARIABLES dd_ast,        \* the top-level nodes of the merged program: [tag, name]
          dd_i,          \* nodes scanned so far
          dd_functions,  \* self.functions: name -> index of the node that set it
          dd_structs,    \* self.structs, likewise
          dd_types,      \* self.types, likewise
          dd_errors,     \* self.errors: [code, name, loc]
          dd_pc          \* "scan", "report", "returned", "exited", or "idle"

\* lex over words, and the parser's first dispatch
VARIABLES lx_code,     \* the source text, a sequence of characters
          lx_pos,      \* the position of the next match
          lx_tokens,   \* the tokens: [type, value]
          lx_handler,  \* the parser branch taken on the first token
          lx_pc        \* "lex", "parse", "done", or "idle"

\* macro expansion in compile_file, and the code generated for main's body
VARIABLES mc_ast,      \* the program: [macros: name -> body, main: statements]
          mc_final,    \* final_ast: [macros, main] after expansion and removal
          mc_i,        \* statements of main generated so far
          mc_text,     \* the calls emitted: [target, arg]
          mc_pc        \* "expand", "gen", "done", or "idle"

\* the driver: compile, write the assembly, run the assembler and the linker
VARIABLES dr_args,     \* [S, lib, output]: the -S and --lib flags, is -o given
          dr_disk,     \* the files that exist
          dr_start,    \* the files that existed when main was entered
          dr_tmp,      \* was BASE.tmp.s written
          dr_res,      \* the return code of the last gcc run
          dr_failed,   \* did a compilation phase raise
          dr_exit,     \* the exit code of the process
          dr_pc        \* "compile", "write", "assemble", "link", "cleanup", "exited", or "idle"

\* constant folding: an expression, its folded form, and what each computes
VARIABLES cf_expr,     \* the expression as parsed
          cf_opt,      \* the result of optimize_ast, or NotFolded before it ran
          cf_raw,      \* what the code emitted for cf_expr leaves in %rax
          cf_fold,     \* what the code emitted for cf_opt leaves in %rax
          cf_pc        \* "optimize", "generate", "reference", "done", or "idle"

\* label generation: the label and lambda counters and the labels defined
VARIABLES lb_label_count,   \* self.label_count
          lb_lambda_count,  \* self.lambda_count
          lb_text,          \* the labels defined in self.text, in order
          lb_lambda_funcs,  \* self.lambda_funcs: the label lists of finished lambdas
          lb_stack,         \* the statements and lambdas being generated, innermost last
          lb_stmts,         \* the number of statements and lambdas generated so far
          lb_out,           \* the labels defined in the output of generate
          lb_pc             \* "gen", "done", or "idle"

rcVars == <<rc_desc, rc_decl, rc_errors, rc_pc>>

optVars == <<opt_input, opt_lines, opt_changed, opt_call, opt_first, opt_passes, opt_pc>>

arrVars == <<arr_ty, arr_data, arr_len, arr_cap, arr_rax, arr_pc, arr_op, arr_grew,
            arr_oob, arr_pushed, arr_npush, arr_ops>>

cgVars == <<cg_stack, cg_break_targets, cg_label_count, cg_lambda_count, cg_cur,
            cg_texts, cg_nodes, cg_pc>>

bcVars == <<bc_stack, bc_break_context, bc_errors, bc_unenclosed, bc_nodes, bc_pc>>

anVars == <<an_ast, an_scan, an_require_main, an_show_warnings, an_final, an_i,
            an_errors, an_warnings, an_stdout, an_pc>>

nsVars == <<ns_header, ns_user, ns_use, ns_ast, ns_expanded, ns_result, ns_pc>>

stVars == <<st_program, st_structs, st_i>>

tcVars == <<tc_target, tc_source, tc_pc, tc_result>>

scVars == <<sc_scopes, sc_stack, sc_errors, sc_op, sc_nodes, sc_pc>>

gvVars == <<gv_decl, gv_scope0, gv_errors, gv_data, gv_pc>>

fnVars == <<fn_name, fn_text, fn_stack, fn_has_return, fn_label_count, fn_stmts,
            fn_body_end, fn_pc>>

swVars == <<sw_node, sw_value, sw_label_count, sw_text, sw_ip, sw_rax, sw_zf, sw_trace,
            sw_pc>>

feVars == <<fe_node, fe_a0, fe_mem, fe_text, fe_body_at, fe_ip, fe_reg, fe_index,
            fe_value, fe_trace, fe_pc>>

pwVars == <<pw_lines, pw_out, pw_ip, pw_regs, pw_stack, pw_regs2, pw_stack2, pw_pc>>

caVars == <<ca_args, ca_struct, ca_text, ca_ip, ca_regs, ca_stack, ca_order, ca_locals,
            ca_pc>>

ddVars == <<dd_ast, dd_i, dd_functions, dd_structs, dd_types, dd_errors, dd_pc>>

lxVars == <<lx_code, lx_pos, lx_tokens, lx_handler, lx_pc>>

mcVars == <<mc_ast, mc_final, mc_i, mc_text, mc_pc>>

drVars == <<dr_args, dr_disk, dr_start, dr_tmp, dr_res, dr_failed, dr_exit, dr_pc>>

cfVars == <<cf_expr, cf_opt, cf_raw, cf_fold, cf_pc>>

lbVars == <<lb_label_count, lb_lambda_count, lb_text, lb_lambda_funcs, lb_stack,
            lb_stmts, lb_out, lb_pc>>

vars == <<rcVars, optVars, arrVars, cgVars, bcVars, anVars, nsVars, stVars, tcVars, scVars, gvVars, fnVars, swVars, feVars, pwVars, caVars, ddVars, lxVars, mcVars, drVars, cfVars, lbVars>>

\* what each subsystem leaves alone
rcOthers == <<optVars, arrVars, cgVars, bcVars, anVars, nsVars, stVars, tcVars, scVars, gvVars, fnVars, swVars, feVars, pwVars, caVars, ddVars, lxVars, mcVars, drVars, cfVars, lbVars>>

optOthers == <<rcVars, arrVars, cgVars, bcVars, anVars, nsVars, stVars, tcVars, scVars, gvVars, fnVars, swVars, feVars, pwVars, caVars, ddVars, lxVars, mcVars, drVars, cfVars, lbVars>>

arrOthers == <<rcVars, optVars, cgVars, bcVars, anVars, nsVars, stVars, tcVars, scVars, gvVars, fnVars, swVars, feVars, pwVars, caVars, ddVars, lxVars, mcVars, drVars, cfVars, lbVars>>

cgOthers == <<rcVars, optVars, arrVars, bcVars, anVars, nsVars, stVars, tcVars, scVars, gvVars, fnVars, swVars, feVars, pwVars, caVars, ddVars, lxVars, mcVars, drVars, cfVars, lbVars>>

bcOthers == <<rcVars, optVars, arrVars, cgVars, anVars, nsVars, stVars, tcVars, scVars, gvVars, fnVars, swVars, feVars, pwVars, caVars, ddVars, lxVars, mcVars, drVars, cfVars, lbVars>>

anOthers == <<rcVars, optVars, arrVars, cgVars, bcVars, nsVars, stVars, tcVars, scVars, gvVars, fnVars, swVars, feVars, pwVars, caVars, ddVars, lxVars, mcVars, drVars, cfVars, lbVars>>

nsOthers == <<rcVars, optVars, arrVars, cgVars, bcVars, anVars, stVars, tcVars, scVars, gvVars, fnVars, swVars, feVars, pwVars, caVars, ddVars, lxVars, mcVars, drVars, cfVars, lbVars>>

stOthers == <<rcVars, optVars, arrVars, cgVars, bcVars, anVars, nsVars, tcVars, scVars, gvVars, fnVars, swVars, feVars, pwVars, caVars, ddVars, lxVars, mcVars, drVars, cfVars, lbVars>>

tcOthers == <<rcVars, optVars, arrVars, cgVars, bcVars, anVars, nsVars, stVars, scVars, gvVars, fnVars, swVars, feVars, pwVars, caVars, ddVars, lxVars, mcVars, drVars, cfVars, lbVars>>

scOthers == <<rcVars, optVars, arrVars, cgVars, bcVars, anVars, nsVars, stVars, tcVars, gvVars, fnVars, swVars, feVars, pwVars, caVars, ddVars, lxVars, mcVars, drVars, cfVars, lbVars>>

gvOthers == <<rcVars, optVars, arrVars, cgVars, bcVars, anVars, nsVars, stVars, tcVars, scVars, fnVars, swVars, feVars, pwVars, caVars, ddVars, lxVars, mcVars, drVars, cfVars, lbVars>>

fnOthers == <<rcVars, optVars, arrVars, cgVars, bcVars, anVars, nsVars, stVars, tcVars, scVars, gvVars, swVars, feVars, pwVars, caVars, ddVars, lxVars, mcVars, drVars, cfVars, lbVars>>

swOthers == <<rcVars, optVars, arrVars, cgVars, bcVars, anVars, nsVars, stVars, tcVars, scVars, gvVars, fnVars, feVars, pwVars, caVars, ddVars, lxVars, mcVars, drVars, cfVars, lbVars>>

feOthers == <<rcVars, optVars, arrVars, cgVars, bcVars, anVars, nsVars, stVars, tcVars, scVars, gvVars, fnVars, swVars, pwVars, caVars, ddVars, lxVars, mcVars, drVars, cfVars, lbVars>>

pwOthers == <<rcVars, optVars, arrVars, cgVars, bcVars, anVars, nsVars, stVars, tcVars, scVars, gvVars, fnVars, swVars, feVars, caVars, ddVars, lxVars, mcVars, drVars, cfVars, lbVars>>

caOthers == <<rcVars, optVars, arrVars, cgVars, bcVars, anVars, nsVars, stVars, tcVars, scVars, gvVars, fnVars, swVars, feVars, pwVars, ddVars, lxVars, mcVars, drVars, cfVars, lbVars>>

ddOthers == <<rcVars, optVars, arrVars, cgVars, bcVars, anVars, nsVars, stVars, tcVars, scVars, gvVars, fnVars, swVars, feVars, pwVars, caVars, lxVars, mcVars, drVars, cfVars, lbVars>>

lxOthers == <<rcVars, optVars, arrVars, cgVars, bcVars, anVars, nsVars, stVars, tcVars, scVars, gvVars, fnVars, swVars, feVars, pwVars, caVars, ddVars, mcVars, drVars, cfVars, lbVars>>

mcOthers == <<rcVars, optVars, arrVars, cgVars, bcVars, anVars, nsVars, stVars, tcVars, scVars, gvVars, fnVars, swVars, feVars, pwVars, caVars, ddVars, lxVars, drVars, cfVars, lbVars>>

drOthers == <<rcVars, optVars, arrVars, cgVars, bcVars, anVars, nsVars, stVars, tcVars, scVars, gvVars, fnVars, swVars, feVars, pwVars, caVars, ddVars, lxVars, mcVars, cfVars, lbVars>>

cfOthers == <<rcVars, optVars, arrVars, cgVars, bcVars, anVars, nsVars, stVars, tcVars, scVars, gvVars, fnVars, swVars, feVars, pwVars, caVars, ddVars, lxVars, mcVars, drVars, lbVars>>

lbOthers == <<rcVars, optVars, arrVars, cgVars, bcVars, anVars, nsVars, stVars, tcVars, scVars, gvVars, fnVars, swVars, feVars, pwVars, caVars, ddVars, lxVars, mcVars, drVars, cfVars>>

(***************************************************************************)
(* Bounds of the model                                                     *)
(***************************************************************************)
NumLimbs == 9          \* limbs (base 256) of an unbounded Python integer

(***************************************************************************)
(* Python integers (unbounded).  [neg, mag] with mag a little-endian       *)
(* sequence of NumLimbs base-256 limbs; zero is never negative.            *)
(***************************************************************************)
Limbs == 1..NumLimbs

Pow2Small(k) == IF k = 0 THEN 1 ELSE IF k = 1 THEN 2 ELSE IF k = 2 THEN 4
                ELSE IF k = 3 THEN 8 ELSE IF k = 4 THEN 16 ELSE IF k = 5 THEN 32
                ELSE IF k = 6 THEN 64 ELSE 128

MagZero == [i \in Limbs |-> 0]

MagOfNat(n) == [i \in Limbs |-> IF i = 1 THEN n % 256
                                ELSE IF i = 2 THEN (n \div 256) % 256
                                ELSE IF i = 3 THEN (n \div 65536) % 256
                                ELSE 0]

\* magnitude of 1 << k
MagShl1(k) == [i \in Limbs |-> IF i - 1 = k \div 8 THEN Pow2Small(k % 8) ELSE 0]

RECURSIVE MagLessFrom(_, _, _)
MagLessFrom(a, b, i) ==
    IF i = 0 THEN FALSE
    ELSE IF a[i] # b[i] THEN a[i] < b[i]
    ELSE MagLessFrom(a, b, i - 1)

MagLess(a, b) == MagLessFrom(a, b, NumLimbs)

RECURSIVE MagAddFrom(_, _, _, _)
MagAddFrom(a, b, i, carry) ==
    IF i > NumLimbs THEN << >>
    ELSE LET s == a[i] + b[i] + carry
         IN  << s % 256 >> \o MagAddFrom(a, b, i + 1, s \div 256)

MagAdd(a, b) == MagAddFrom(a, b, 1, 0)

\* a - b for a >= b
RECURSIVE MagSubFrom(_, _, _, _)
MagSubFrom(a, b, i, borrow) ==
    IF i > NumLimbs THEN << >>
    ELSE LET d == a[i] - b[i] - borrow
         IN  IF d < 0 THEN << d + 256 >> \o MagSubFrom(a, b, i + 1, 1)
                      ELSE << d >> \o MagSubFrom(a, b, i + 1, 0)

MagSub(a, b) == MagSubFrom(a, b, 1, 0)

Big(neg, mag) == [neg |-> neg /\ mag # MagZero, mag |-> mag]

BigOfNat(n) == Big(FALSE, MagOfNat(n))

BigNeg(x) == Big(~x.neg, x.mag)

BigAdd(x, y) ==
    IF x.neg = y.neg THEN Big(x.neg, MagAdd(x.mag, y.mag))
    ELSE IF MagLess(x.mag, y.mag) THEN Big(y.neg, MagSub(y.mag, x.mag))
    ELSE Big(x.neg, MagSub(x.mag, y.mag))

BigSub(x, y) == BigAdd(x, BigNeg(y))

BigLess(x, y) ==
    IF x.neg /\ ~y.neg THEN TRUE
    ELSE IF ~x.neg /\ y.neg THEN FALSE
    ELSE IF x.neg THEN MagLess(y.mag, x.mag)
    ELSE MagLess(x.mag, y.mag)

BigLeq(x, y) == ~BigLess(y, x)

\* Python's 1 << k (k >= 0)
BigShl1(k) == Big(FALSE, MagShl1(k))


(***************************************************************************)
(* Type strings.  A type string is modelled as the sequence of its lexical *)
(* pieces, in the order parse_type writes them: an optional "const "       *)
(* prefix, an optional "signed " / "unsigned " prefix, the base name       *)
(* ("int", "char", "int<8>", a struct or alias name, ...) and "*" pieces.  *)
(* ty.startswith(p) is "the first piece is p"; ty[len(p):] is Tail(ty).    *)
(***************************************************************************)
Widths == {1, 7, 8, 16, 24, 32, 40, 64}

SizedInt(n) == "int<" \o ToString(n) \o ">"

StartsWith(ty, piece) == Len(ty) > 0 /\ ty[1] = piece

\* base_ty.startswith('int<') and base_ty.endswith('>'), for a one-piece base
IsSizedInt(base) == Len(base) = 1 /\ \E n \in Widths : base[1] = SizedInt(n)

\* int(base_ty[4:-1])
SizedIntBits(base) == CHOOSE n \in Widths : base[1] = SizedInt(n)

(***************************************************************************)
(* Union aliases known to the analyzer (self.types): name -> member types. *)
(***************************************************************************)
UnionNames == {"Num", "Val"}

UnionMembers(name) ==
    IF name = "Num" THEN << <<"int<8>">>, <<"float">> >>
    ELSE << <<"const ", "int">>, <<"Num">> >>

\* ty in self.types
IsUnion(ty) == Len(ty) = 1 /\ ty[1] \in UnionNames

(***************************************************************************)
(* Semantic analyzer: integer-literal range checking                       *)
(***************************************************************************)

\* SemanticAnalyzer._is_integer_type
IsIntegerType(ty0) ==
    LET ty == IF StartsWith(ty0, "const ") THEN Tail(ty0) ELSE ty0
    IN  IF ty = <<"int">> \/ ty = <<"char">> THEN TRUE
        ELSE IF StartsWith(ty, "unsigned ") \/ StartsWith(ty, "signed ")
             THEN LET base == Tail(ty)
                  IN  base = <<"int">> \/ base = <<"char">>
                      \/ (Len(base) > 0 /\ \E n \in Widths : base[1] = SizedInt(n))
        ELSE IsSizedInt(ty)

\* the width table of _check_int_literal_range / _int_literal_fits:
\* 0 stands for "no width" (the function returns without checking)
RangeBits(base_ty) ==
    IF base_ty = <<"int">> THEN 64
    ELSE IF base_ty = <<"char">> THEN 8
    ELSE IF IsSizedInt(base_ty) THEN SizedIntBits(base_ty)
    ELSE 0

\* min_val / max_val of _check_int_literal_range
RangeMin(signed, bits) == IF signed THEN BigNeg(BigShl1(bits - 1)) ELSE BigOfNat(0)

\* a max_val that forgets the sign bit
RangeMaxNoSign(signed, bits) == BigSub(BigShl1(bits), BigOfNat(1))

RangeMax(signed, bits) ==
    IF signed THEN BigSub(BigShl1(bits - 1), BigOfNat(1))
    ELSE BigSub(BigShl1(bits), BigOfNat(1))

\* SemanticAnalyzer._check_int_literal_range: the error codes it records
CheckIntLiteralRange(ty, value) ==
    LET signed  == ~StartsWith(ty, "unsigned ")
        base_ty == IF StartsWith(ty, "unsigned ") \/ StartsWith(ty, "signed ")
                   THEN Tail(ty) ELSE ty
        bits    == RangeBits(base_ty)
    IN  IF bits = 0 THEN << >>
        ELSE IF BigLess(value, RangeMin(signed, bits))
                \/ BigLess(RangeMax(signed, bits), value)
             THEN << "E023" >>
        ELSE << >>

\* SemanticAnalyzer._int_literal_fits
IntLiteralFits(ty0, value) ==
    LET ty      == IF StartsWith(ty0, "const ") THEN Tail(ty0) ELSE ty0
        signed  == ~StartsWith(ty, "unsigned ")
        base_ty == IF StartsWith(ty, "unsigned ") \/ StartsWith(ty, "signed ")
                   THEN Tail(ty) ELSE ty
        bits    == RangeBits(base_ty)
    IN  IF bits = 0 THEN FALSE
        ELSE BigLeq(RangeMin(signed, bits), value)
             /\ BigLeq(value, RangeMax(signed, bits))

\* SemanticAnalyzer._check_int_literal_against_type: the error codes it records
CheckIntLiteralAgainstType(ty, value) ==
    IF IsUnion(ty)
    THEN LET members == UnionMembers(ty[1])
             ints    == {i \in 1..Len(members) : IsIntegerType(members[i])}
         IN  IF ints = {} THEN << "E002" >>
             ELSE IF \E i \in ints : IntLiteralFits(members[i], value) THEN << >>
             ELSE << "E023" >>
    ELSE IF IsIntegerType(ty) THEN CheckIntLiteralRange(ty, value)
    ELSE << "E002" >>

\* SemanticAnalyzer._eval_constant_int on number nodes and on binops of them
\* (PyNone is Python's None; only + and - are drawn as inputs here)
PyNone == [neg |-> FALSE, mag |-> << >>]

RECURSIVE EvalConstantInt(_)
EvalConstantInt(node) ==
    IF node.tag = "number" THEN node.val
    ELSE IF node.tag = "binop"
         THEN LET left  == EvalConstantInt(node.left)
                  right == EvalConstantInt(node.right)
              IN  IF left = PyNone \/ right = PyNone THEN PyNone
                  ELSE IF node.op = "+" THEN BigAdd(left, right)
                  ELSE IF node.op = "-" THEN BigSub(left, right)
                  ELSE PyNone
    ELSE PyNone

(***************************************************************************)
(* Semantic analyzer: type compatibility                                   *)
(***************************************************************************)

\* SemanticAnalyzer._normalize_type
NormalizeType(ty) ==
    IF ty = <<"int">> THEN <<"int<64>">>
    ELSE IF ty = <<"float">> THEN <<"float<64>">>
    ELSE ty

\* SemanticAnalyzer._types_compatible
RECURSIVE TypesCompatible(_, _)
TypesCompatible(target_type, source_type) ==
    IF IsUnion(target_type)
    THEN LET members == UnionMembers(target_type[1])
         IN  \E i \in 1..Len(members) : TypesCompatible(members[i], source_type)
    ELSE IF IsUnion(source_type) THEN FALSE
    ELSE NormalizeType(target_type) = NormalizeType(source_type)

\* SemanticAnalyzer._get_type on number nodes and on binops of them
RECURSIVE GetType(_)
GetType(node) ==
    IF node.tag = "number" THEN <<"int">>
    ELSE IF node.tag = "binop" THEN GetType(node.left)
    ELSE <<"unknown">>

(***************************************************************************)
(* Analysis of one local declaration  T x = init;                          *)
(***************************************************************************)
\* Parser.parse_type: the sign modifier is applied first, then const
TypeString(d) ==
    (IF d.const THEN <<"const ">> ELSE << >>)
    \o (IF d.sign = "none" THEN << >> ELSE << d.sign \o " " >>)
    \o << d.base >>

TypeDescs ==
    [const : BOOLEAN, sign : {"none", "signed", "unsigned"},
     base : {"int", "char"} \cup {SizedInt(n) : n \in Widths}]

\* the width the language gives the base name
DescBits(d) ==
    IF d.base = "int" THEN 64
    ELSE IF d.base = "char" THEN 8
    ELSE CHOOSE n \in Widths : d.base = SizedInt(n)

\* literal values around the ends of every range, as the parser builds them
\* from NUMBER tokens (never negative)
EdgeExps == {0, 6, 7, 8, 15, 16, 31, 32, 63, 64}

LiteralValues ==
    {BigOfNat(0), BigOfNat(200)}
    \cup {BigShl1(k) : k \in EdgeExps}
    \cup {BigSub(BigShl1(k), BigOfNat(1)) : k \in EdgeExps}
    \cup {BigAdd(BigShl1(k), BigOfNat(1)) : k \in EdgeExps}

NumberNode(v) == [tag |-> "number", val |-> v]

\* initializers: a literal v, or the constant expression 0 - v
InitExprs ==
    {NumberNode(v) : v \in LiteralValues}
    \cup {[tag |-> "binop", op |-> "-", left |-> NumberNode(BigOfNat(0)),
           right |-> NumberNode(v)] : v \in LiteralValues}

RangeInit ==
    /\ rc_desc \in TypeDescs
    /\ \E init \in InitExprs : rc_decl = [ty |-> TypeString(rc_desc), init |-> init]
    /\ rc_errors = << >>
    /\ rc_pc = "decl"

\* SemanticAnalyzer._analyze_node, tag 'var_decl', for number and binop
\* initializers (analysing the initializer itself records nothing for them)
AnalyzeVarDecl ==
    /\ rc_pc = "decl"
    /\ LET ty   == rc_decl.ty
           init == rc_decl.init
       IN  rc_errors' = rc_errors \o
             (IF init.tag = "number" THEN CheckIntLiteralAgainstType(ty, init.val)
              ELSE LET const_val == EvalConstantInt(init)
                   IN  IF const_val # PyNone
                       THEN CheckIntLiteralAgainstType(ty, const_val)
                       ELSE IF TypesCompatible(ty, GetType(init)) THEN << >>
                       ELSE << "E002" >>)
    /\ rc_pc' = "done"
    /\ UNCHANGED <<rc_desc, rc_decl>>
    /\ UNCHANGED rcOthers

RangeNext == AnalyzeVarDecl

RangeIdle ==
    /\ rc_desc = [const |-> FALSE, sign |-> "none", base |-> "int"]
    /\ rc_decl = [ty |-> <<"int">>, init |-> NumberNode(BigOfNat(0))]
    /\ rc_errors = << >>
    /\ rc_pc = "idle"

\* the constant the initializer denotes
InitValue == EvalConstantInt(rc_decl.init)

Recorded(code) == \E i \in 1..Len(rc_errors) : rc_errors[i] = code

\* v lies in the range the language gives the declared type
InDeclaredRange(d, v) ==
    IF d.sign = "unsigned"
    THEN BigLeq(BigOfNat(0), v) /\ BigLess(v, BigShl1(DescBits(d)))
    ELSE BigLeq(BigNeg(BigShl1(DescBits(d) - 1)), v)
         /\ BigLess(v, BigShl1(DescBits(d) - 1))

C13_ConstRangeCheck ==
    (rc_pc = "done" /\ rc_desc.const)
        => (Recorded("E023") <=> ~InDeclaredRange(rc_desc, InitValue))

(***************************************************************************)
(* Peephole optimizer (Optimizer.optimize_asm).  A stripped assembly line  *)
(* is the sequence of its pieces: <<"push", A>>, <<"pop", A>>,             *)
(* <<"mov", X, B>> ("mov X, B"), <<"add", "$0", X>>, <<"sub", "$0", X>>,   *)
(* <<"jmp", L>>, <<"label", L>> ("L:"), and <<"ret">>.                     *)
(***************************************************************************)
MaxLines == 4          \* longest input list of lines

AsmAlphabet ==
    { <<"push", "%rax">>, <<"pop", "%rax">>, <<"pop", "%rcx">>,
      <<"mov", "%rax", "%rcx">>, <<"mov", "%rcx", "%rax">>,
      <<"mov", "%rdx", "%rdx">>, <<"add", "$0", "%rax">>,
      <<"sub", "$0", "%rax">>, <<"jmp", ".L1">>, <<"label", ".L1">> }

RECURSIVE SeqsUpTo(_, _)
SeqsUpTo(S, n) ==
    IF n = 0 THEN { << >> }
    ELSE LET shorter == SeqsUpTo(S, n - 1)
         IN  shorter \cup {Append(q, x) : q \in {r \in shorter : Len(r) = n - 1}, x \in S}

IsOp(line, op) == line[1] = op

\* s.startswith('mov ') with s[4:].split(', ') of length 2
IsMov2(line) == IsOp(line, "mov") /\ Len(line) = 3

\* the outcome of the pattern tests at position i of one pass:
\* the lines appended to new_asm, the number of lines consumed, and
\* whether `changed` was set
Keep(line) == [emit |-> << line >>, skip |-> 1, changed |-> FALSE]

Drop(n) == [emit |-> << >>, skip |-> n, changed |-> TRUE]

Put(out, n) == [emit |-> out, skip |-> n, changed |-> TRUE]

\* a three-line window that rewrites the push but keeps the pop
Window3KeepsPop(lines, i) ==
    LET line == lines[i]
        nxt  == lines[i + 1]
        s3   == lines[i + 2]
        a    == line[2]
        c    == s3[2]
        b_dest == IF Len(nxt) = 3 THEN nxt[3] ELSE ""
    IN  IF IsOp(line, "push") /\ IsOp(nxt, "mov") /\ IsOp(s3, "pop")
           /\ b_dest # "" /\ a # b_dest /\ c # b_dest
        THEN Put((IF a # c THEN << <<"mov", a, c>> >> ELSE << >>) \o << nxt, s3 >>, 3)
        ELSE Keep(line)

Window3(lines, i) ==
    LET line == lines[i]
        nxt  == lines[i + 1]
        s3   == lines[i + 2]
        a    == line[2]
        c    == s3[2]
        b_dest == IF Len(nxt) = 3 THEN nxt[3] ELSE ""
    IN  IF IsOp(line, "push") /\ IsOp(nxt, "mov") /\ IsOp(s3, "pop")
           /\ b_dest # "" /\ a # b_dest /\ c # b_dest
        THEN Put((IF a # c THEN << <<"mov", a, c>> >> ELSE << >>) \o << nxt >>, 3)
        ELSE Keep(line)

RewriteAt(lines, i) ==
    LET line == lines[i]
    IN  IF i + 1 > Len(lines) THEN Keep(line)
        ELSE LET nxt == lines[i + 1]
             IN  IF IsOp(line, "jmp") /\ nxt = <<"label", line[2]>> THEN Drop(1)
                 ELSE IF IsOp(line, "push") /\ IsOp(nxt, "pop")
                      THEN IF line[2] = nxt[2] THEN Drop(2)
                           ELSE Put(<< <<"mov", line[2], nxt[2]>> >>, 2)
                 ELSE IF IsMov2(line) /\ IsMov2(nxt)
                         /\ line[2] = nxt[3] /\ line[3] = nxt[2]
                      THEN Put(<< line >>, 2)
                 ELSE IF IsOp(line, "add") /\ line[2] = "$0" THEN Drop(1)
                 ELSE IF IsOp(line, "sub") /\ line[2] = "$0" THEN Drop(1)
                 ELSE IF IsMov2(line) /\ line[2] = line[3] THEN Drop(1)
                 ELSE IF i + 2 <= Len(lines) THEN Window3(lines, i)
                 ELSE Keep(line)

\* a push/pop rewrite that forgets to set `changed`
RewriteSilentMov(lines, i) ==
    LET r == RewriteAt(lines, i)
    IN  IF r.changed /\ r.skip = 2 /\ IsOp(lines[i], "push")
        THEN [r EXCEPT !.changed = FALSE] ELSE r

Rewrite(lines, i) == RewriteAt(lines, i)

\* the inner while loop: one pass over asm_lines from position i
RECURSIVE PassFrom(_, _)
PassFrom(lines, i) ==
    IF i > Len(lines) THEN [out |-> << >>, changed |-> FALSE]
    ELSE LET r    == Rewrite(lines, i)
             rest == PassFrom(lines, i + r.skip)
         IN  [out |-> r.emit \o rest.out, changed |-> r.changed \/ rest.changed]

OptInit ==
    /\ opt_input \in SeqsUpTo(AsmAlphabet, MaxLines)
    /\ opt_lines = opt_input
    /\ opt_changed = TRUE
    /\ opt_call = 1
    /\ opt_first = << >>
    /\ opt_passes = 0
    /\ opt_pc = "loop"

\* one iteration of `while changed`
OptPass ==
    /\ opt_pc = "loop" /\ opt_changed
    /\ LET r == PassFrom(opt_lines, 1)
       IN  /\ opt_lines' = r.out
           /\ opt_changed' = r.changed
    /\ opt_passes' = opt_passes + 1
    /\ UNCHANGED <<opt_input, opt_call, opt_first, opt_pc>>
    /\ UNCHANGED optOthers

\* `return asm_lines` of the first call, and the second call on its result
OptReturnFirst ==
    /\ opt_pc = "loop" /\ ~opt_changed /\ opt_call = 1
    /\ opt_first' = opt_lines
    /\ opt_call' = 2
    /\ opt_changed' = TRUE
    /\ opt_passes' = 0
    /\ UNCHANGED <<opt_input, opt_lines, opt_pc>>
    /\ UNCHANGED optOthers

\* `return asm_lines` of the second call
OptReturnSecond ==
    /\ opt_pc = "loop" /\ ~opt_changed /\ opt_call = 2
    /\ opt_pc' = "done"
    /\ UNCHANGED <<opt_input, opt_lines, opt_changed, opt_call, opt_first, opt_passes>>
    /\ UNCHANGED optOthers

OptNext == OptPass \/ OptReturnFirst \/ OptReturnSecond

OptIdle ==
    /\ opt_input = << >> /\ opt_lines = << >> /\ opt_changed = FALSE
    /\ opt_call = 0 /\ opt_first = << >> /\ opt_passes = 0 /\ opt_pc = "idle"

\* C2: optimize_asm is idempotent: optimize_asm(optimize_asm(L)) equals
\* optimize_asm(L) line for line.
C2_Idempotent == opt_pc = "done" => opt_lines = opt_first

\* a list the first call rewrote in more than one pass, optimized twice
C2_Witness ==
    /\ opt_pc = "done"
    /\ opt_first # opt_input
    /\ opt_input = << <<"push", "%rax">>, <<"pop", "%rcx">>,
                      <<"mov", "%rcx", "%rax">>, <<"jmp", ".L1">> >>
    /\ opt_first = << <<"mov", "%rax", "%rcx">>, <<"jmp", ".L1">> >>

\* the label lines of a list, in their order
LabelLines(lines) == SelectSeq(lines, LAMBDA l : l[1] = "label")

\* the list the running call was given
CallInput == IF opt_call = 2 THEN opt_first ELSE opt_input

\* C28: optimize_asm terminates: every pass that reports a change returns
\* strictly fewer lines than it received, so a call makes at most as many
\* passes as its input has lines, plus one, and its output is never longer
\* than its input; the label lines are all kept, in their original order.
C28_Terminates ==
    /\ [][ opt_passes' = opt_passes + 1
              => /\ opt_changed' => Len(opt_lines') < Len(opt_lines)
                 /\ ~opt_changed' => opt_lines' = opt_lines ]_vars
    /\ [](opt_pc = "loop" =>
             /\ opt_passes <= Len(CallInput) + 1
             /\ Len(opt_lines) <= Len(CallInput)
             /\ LabelLines(opt_lines) = LabelLines(CallInput))

\* a first call on a list with a label whose first two passes each reported
\* a change
C28_Witness ==
    /\ opt_pc = "loop" /\ opt_call = 1
    /\ opt_passes = 2 /\ opt_changed
    /\ Len(opt_lines) < Len(opt_input)
    /\ LabelLines(opt_input) # << >>

(***************************************************************************)
(* Code generator: sizes of types (CodeGen.sizeof).  structs maps a struct *)
(* name to its record in self.structs; StructNames are the names in it.    *)
(***************************************************************************)
EnumNames == {"Color"}

StripConst(ty) == IF StartsWith(ty, "const ") THEN Tail(ty) ELSE ty

StripSign(ty) ==
    IF StartsWith(ty, "unsigned ") \/ StartsWith(ty, "signed ") THEN Tail(ty) ELSE ty

RECURSIVE SizeOf(_, _)
SizeOf(ty, structs) ==
    IF ty[Len(ty)] = "*" THEN 8
    ELSE IF ty[1] = "fnptr" THEN 8
    ELSE IF ty[1] = "array<" THEN 24
    ELSE LET rest == StripSign(StripConst(ty))
             base == rest[1]
         IN  IF IsSizedInt(rest) THEN (SizedIntBits(rest) + 7) \div 8
             ELSE IF base = "char" THEN 1
             ELSE IF base = "float<32>" THEN 4
             ELSE IF base \in {"int", "float", "float<64>", "string"} THEN 8
             ELSE IF base \in DOMAIN structs THEN structs[base].size
             ELSE IF base \in EnumNames THEN 4
             ELSE IF base \in UnionNames
             THEN LET sizes == { SizeOf(StripConst(UnionMembers(base)[i]), structs) :
                                    i \in 1..Len(UnionMembers(base)) }
                      max_size == CHOOSE m \in sizes : \A k \in sizes : k <= m
                  IN  IF max_size = 0 THEN 1 ELSE max_size
             ELSE 8

NoStructs == [n \in {} |-> [size |-> 0]]

(***************************************************************************)
(* Run-time behaviour of the code emitted for a local array<T> declared    *)
(* without initializer and for its methods push, pop, length and clear.    *)
(* A 64-bit register is the little-endian sequence of its 8 bytes; the     *)
(* heap block behind the data pointer is a sequence of capacity cells, a   *)
(* cell being the bytes of one element (<< >> while never written).        *)
(***************************************************************************)
MaxOps == 8            \* method calls made on the array

ElemTypes == { <<"char">>, <<"int<16>">>, <<"int<32>">>, <<"int">>,
               <<"unsigned ", "char">>, <<"unsigned ", "int<16>">>,
               <<"unsigned ", "int<32>">> }

ZeroExtend(bytes) == [i \in 1..8 |-> IF i <= Len(bytes) THEN bytes[i] ELSE 0]

SignExtend(bytes) ==
    [i \in 1..8 |-> IF i <= Len(bytes) THEN bytes[i]
                    ELSE IF bytes[Len(bytes)] >= 128 THEN 255 ELSE 0]

\* the bytes an element of sz bytes can hold: 1, all ones, only the top bit
ElemPatterns(sz) ==
    { [i \in 1..sz |-> IF i = 1 THEN 1 ELSE 0],
      [i \in 1..sz |-> 255],
      [i \in 1..sz |-> IF i = sz THEN 128 ELSE 0] }

\* %rax after gen_expr of an expression of integer type ty whose low bytes
\* are `bytes`: loads sign-extend unless the type is unsigned
ExprValue(ty, bytes) ==
    IF StartsWith(ty, "unsigned ") THEN ZeroExtend(bytes) ELSE SignExtend(bytes)

ExprValues(ty) == { ExprValue(ty, b) : b \in ElemPatterns(SizeOf(ty, NoStructs)) }

\* mov %al / %ax / %eax / %rax, (%rcx)
StoreElem(sz, rax) == SubSeq(rax, 1, sz)

\* movzbq / movzwq / movslq / mov (%rcx), %rax
LoadPopped(sz, cell) ==
    IF sz = 1 THEN ZeroExtend(cell)
    ELSE IF sz = 2 THEN ZeroExtend(cell)
    ELSE IF sz = 4 THEN SignExtend(cell)
    ELSE cell

\* a small signed integer as a 64-bit register
RegOfInt(n) == [i \in 1..8 |-> IF n >= 0 THEN (IF i = 1 THEN n ELSE 0)
                               ELSE (IF i = 1 THEN 256 + n ELSE 255)]

NullPtr == [null |-> TRUE, cells |-> << >>]

\* realloc(ptr, cap * elem_sz): the old contents, then unwritten cells
Realloc(ptr, cap) ==
    [null |-> FALSE,
     cells |-> [i \in 1..cap |-> IF i <= Len(ptr.cells) THEN ptr.cells[i] ELSE << >>]]

\* shl $1, %rdi; cmp $4, %rdi; jge cap_ok; mov $4, %rdi
NewCapNoFloor(cap) == cap * 2

NewCap(cap) == IF cap * 2 >= 4 THEN cap * 2 ELSE 4

ElemSz == SizeOf(arr_ty, NoStructs)

ArrInit ==
    /\ arr_ty \in ElemTypes
    /\ arr_data = NullPtr
    /\ arr_len = 0
    /\ arr_cap = 0
    /\ arr_rax = RegOfInt(0)
    /\ arr_pc = "run"
    /\ arr_op = "decl"
    /\ arr_grew = FALSE
    /\ arr_oob = FALSE
    /\ arr_pushed = << >>
    /\ arr_npush = 0
    /\ arr_ops = 0

\* the store of push: mov <low bytes of %rax>, (data + len * elem_sz); incq len
PushStore(data, v) ==
    IF data.null
    THEN /\ arr_pc' = "segv"
         /\ UNCHANGED <<arr_len, arr_oob>>
         /\ arr_data' = data
    ELSE IF 0 <= arr_len /\ arr_len < Len(data.cells)
    THEN /\ arr_data' = [data EXCEPT !.cells[arr_len + 1] = StoreElem(ElemSz, v)]
         /\ arr_len' = arr_len + 1
         /\ UNCHANGED <<arr_pc, arr_oob>>
    ELSE \* a write outside the block: the heap is damaged, or the process dies
         \E dies \in BOOLEAN :
            /\ arr_data' = data
            /\ arr_oob' = TRUE
            /\ arr_pc' = IF dies THEN "segv" ELSE "run"
            /\ arr_len' = IF dies THEN arr_len ELSE arr_len + 1

ArrPush(v) ==
    /\ arr_pc = "run"
    /\ arr_ops < MaxOps
    /\ LET grow == arr_len >= arr_cap
           cap1 == IF grow THEN NewCap(arr_cap) ELSE arr_cap
       IN  /\ arr_cap' = cap1
           /\ arr_grew' = grow
           /\ \E ok \in (IF grow THEN BOOLEAN ELSE {TRUE}) :
                 PushStore(IF ~grow THEN arr_data
                           ELSE IF ok THEN Realloc(arr_data, cap1) ELSE NullPtr,
                           v)
    /\ arr_rax' = v
    /\ arr_op' = "push"
    /\ arr_pushed' = Append(arr_pushed, v)
    /\ arr_npush' = arr_npush + 1
    /\ arr_ops' = arr_ops + 1
    /\ UNCHANGED arr_ty
    /\ UNCHANGED arrOthers

ArrPop ==
    /\ arr_pc = "run"
    /\ arr_ops < MaxOps
    /\ arr_len' = arr_len - 1
    /\ IF arr_data.null
       THEN /\ arr_pc' = "segv"
            /\ UNCHANGED <<arr_rax, arr_oob>>
       ELSE IF 0 <= arr_len - 1 /\ arr_len - 1 < Len(arr_data.cells)
               /\ arr_data.cells[arr_len] # << >>
       THEN /\ arr_rax' = LoadPopped(ElemSz, arr_data.cells[arr_len])
            /\ UNCHANGED <<arr_pc, arr_oob>>
       ELSE \* a read outside the block: whatever bytes lie there, or death
            /\ arr_oob' = TRUE
            /\ \/ /\ arr_pc' = "segv"
                  /\ UNCHANGED arr_rax
               \/ /\ UNCHANGED arr_pc
                  /\ \E g \in ElemPatterns(ElemSz) : arr_rax' = LoadPopped(ElemSz, g)
    /\ arr_op' = "pop"
    /\ arr_grew' = FALSE
    /\ arr_pushed' = IF arr_pushed = << >> THEN << >>
                     ELSE SubSeq(arr_pushed, 1, Len(arr_pushed) - 1)
    /\ arr_ops' = arr_ops + 1
    /\ UNCHANGED <<arr_ty, arr_data, arr_cap, arr_npush>>
    /\ UNCHANGED arrOthers

ArrLength ==
    /\ arr_pc = "run"
    /\ arr_ops < MaxOps
    /\ arr_rax' = RegOfInt(arr_len)
    /\ arr_op' = "length"
    /\ arr_grew' = FALSE
    /\ arr_ops' = arr_ops + 1
    /\ UNCHANGED <<arr_ty, arr_data, arr_len, arr_cap, arr_pc, arr_oob, arr_pushed, arr_npush>>
    /\ UNCHANGED arrOthers

ArrClear ==
    /\ arr_pc = "run"
    /\ arr_ops < MaxOps
    /\ arr_len' = 0
    /\ arr_op' = "clear"
    /\ arr_grew' = FALSE
    /\ arr_pushed' = << >>
    /\ arr_ops' = arr_ops + 1
    /\ UNCHANGED <<arr_ty, arr_data, arr_cap, arr_rax, arr_pc, arr_oob, arr_npush>>
    /\ UNCHANGED arrOthers

ArrPushAny == \E v \in ExprValues(arr_ty) : ArrPush(v)

ArrNext == ArrPushAny \/ ArrPop \/ ArrLength \/ ArrClear

ArrIdle ==
    /\ arr_ty = <<"int">>
    /\ arr_data = NullPtr
    /\ arr_len = 0
    /\ arr_cap = 0
    /\ arr_rax = RegOfInt(0)
    /\ arr_pc = "idle"
    /\ arr_op = "none"
    /\ arr_grew = FALSE
    /\ arr_oob = FALSE
    /\ arr_pushed = << >>
    /\ arr_npush = 0
    /\ arr_ops = 0

CapSet == {0} \cup { 4 * Pow2Small(i) : i \in 0..5 }

MaxOf(a, b) == IF a >= b THEN a ELSE b

\* C3: starting from the empty array and while only pushes were made, after
\* k pushes the length is k, the capacity is at least k and is 0 or 4 times
\* a power of two; a push calls realloc exactly when length equals capacity
\* and then sets the capacity to max(2 * capacity, 4), and otherwise leaves
\* capacity and data pointer alone.
C3_Growth ==
    /\ []((arr_pc = "run" /\ arr_npush = arr_ops)
            => (arr_len = arr_npush /\ arr_cap >= arr_len /\ arr_cap \in CapSet))
    /\ [][(arr_op' = "push")
            => /\ arr_grew' <=> (arr_len = arr_cap)
               /\ arr_grew' => arr_cap' = MaxOf(2 * arr_cap, 4)
               /\ ~arr_grew' => (arr_cap' = arr_cap /\ arr_data'.null = arr_data.null)]_vars

C3_Witness ==
    /\ arr_pc = "run"
    /\ arr_npush = 5
    /\ arr_ops = 5
    /\ arr_len = 5
    /\ arr_cap = 8
    /\ arr_grew

\* C4: a pop made while the array holds exactly the elements pushed and not
\* yet popped returns the value most recently pushed, as the expression
\* that pushed it held it, and leaves the length one lower.
C4_RoundTrip ==
    [][(arr_op' = "pop" /\ arr_pc' = "run"
          /\ Len(arr_pushed) = arr_len /\ arr_len >= 1)
        => (arr_rax' = arr_pushed[Len(arr_pushed)] /\ arr_len' = arr_len - 1)]_vars

\* C27: for a local array declared without initializer, after any sequence
\* of push, pop, clear and length, pop on an empty array included,
\* 0 <= length <= capacity holds; every element written by push lands at an
\* index in [0, capacity); clear and pop leave the capacity and the data
\* pointer unchanged.
C27_ArrayBounds ==
    /\ [](arr_pc = "run" => (0 <= arr_len /\ arr_len <= arr_cap))
    /\ [][ (arr_ops' = arr_ops + 1 /\ arr_op' = "push" /\ arr_pc' = "run")
              => (0 <= arr_len /\ arr_len < arr_cap') ]_vars
    /\ [][ (arr_ops' = arr_ops + 1 /\ arr_op' \in {"pop", "clear"})
              => (arr_cap' = arr_cap /\ arr_data' = arr_data) ]_vars

(***************************************************************************)
(* Code generator: break binding.  The statements of one function body are *)
(* generated in source order; the constructs that matter to break are      *)
(* entered and left as gen_stmt recurses: the four loops, switch, if, and  *)
(* a lambda expression (the initializer of a declaration or an expression  *)
(* statement).  Of the emitted lines the model keeps the first line of a   *)
(* loop or switch ("begin"), its end label ("end"), the jmp of a break     *)
(* and one line for any other statement; labels are named by their number. *)
(***************************************************************************)
MaxDepth == 4          \* constructs open at once, the function included

MaxNodes == 5          \* statements in the function body, nested ones included

LoopKinds == {"while_stmt", "do_while_stmt", "for_stmt", "foreach_stmt"}

Breakable == LoopKinds \cup {"switch_stmt"}

FunctionKinds == {"func", "lambda"}

TextIds == 0..MaxNodes

Line(op, n) == [op |-> op, label |-> n, encl |-> 0]

\* what the source says a break written here belongs to: the innermost loop
\* or switch open inside the innermost function or lambda (0 when none)
Enclosing(stack) ==
    LET fn == CHOOSE i \in 1..Len(stack) :
                  /\ stack[i].kind \in FunctionKinds
                  /\ \A j \in (i + 1)..Len(stack) : stack[j].kind \notin FunctionKinds
        cands == { i \in (fn + 1)..Len(stack) : stack[i].kind \in Breakable }
    IN  IF cands = {} THEN 0
        ELSE stack[CHOOSE i \in cands : \A j \in cands : j <= i].label

Emit(line) == cg_texts' = [cg_texts EXCEPT ![cg_cur] = Append(@, line)]

Frame(kind, n) == [kind |-> kind, label |-> n, saved_text |-> cg_cur]

CanNest == cg_pc = "gen" /\ cg_nodes < MaxNodes /\ Len(cg_stack) < MaxDepth

CgInit ==
    /\ cg_stack = << [kind |-> "func", label |-> 0, saved_text |-> 0] >>
    /\ cg_break_targets = << >>
    /\ cg_label_count = 0
    /\ cg_lambda_count = 0
    /\ cg_cur = 0
    /\ cg_texts = [t \in TextIds |-> << >>]
    /\ cg_nodes = 0
    /\ cg_pc = "gen"

\* while / do-while / for / foreach, up to the first statement of the body
GenLoopEnter(kind) ==
    /\ CanNest
    /\ cg_label_count' = cg_label_count + 1
    /\ Emit(Line("begin", cg_label_count'))
    /\ cg_break_targets' = Append(cg_break_targets, cg_label_count')
    /\ cg_stack' = Append(cg_stack, Frame(kind, cg_label_count'))
    /\ cg_nodes' = cg_nodes + 1
    /\ UNCHANGED <<cg_lambda_count, cg_cur, cg_pc>>
    /\ UNCHANGED cgOthers

GenLoop == \E kind \in LoopKinds : GenLoopEnter(kind)

\* switch, up to the first statement of the first case body
GenSwitchEnter ==
    /\ CanNest
    /\ cg_label_count' = cg_label_count + 1
    /\ Emit(Line("begin", cg_label_count'))
    /\ cg_break_targets' = Append(cg_break_targets, cg_label_count')
    /\ cg_stack' = Append(cg_stack, Frame("switch_stmt", cg_label_count'))
    /\ cg_nodes' = cg_nodes + 1
    /\ UNCHANGED <<cg_lambda_count, cg_cur, cg_pc>>
    /\ UNCHANGED cgOthers

GenIfEnter ==
    /\ CanNest
    /\ cg_label_count' = cg_label_count + 1
    /\ cg_stack' = Append(cg_stack, Frame("if_stmt", cg_label_count'))
    /\ cg_nodes' = cg_nodes + 1
    /\ UNCHANGED <<cg_break_targets, cg_lambda_count, cg_cur, cg_texts, cg_pc>>
    /\ UNCHANGED cgOthers

\* gen_expr(lambda), up to the first statement of the lambda body: the text
\* and the local variables are saved and replaced, break_targets is not
GenLambdaEnter ==
    /\ CanNest
    /\ cg_lambda_count' = cg_lambda_count + 1
    /\ cg_stack' = Append(cg_stack, Frame("lambda", 0))
    /\ cg_cur' = cg_lambda_count'
    /\ cg_nodes' = cg_nodes + 1
    /\ UNCHANGED <<cg_break_targets, cg_label_count, cg_texts, cg_pc>>
    /\ UNCHANGED cgOthers

GenBreak ==
    /\ cg_pc = "gen"
    /\ cg_nodes < MaxNodes
    /\ IF cg_break_targets = << >>
       THEN /\ cg_pc' = "raised"
            /\ UNCHANGED cg_texts
       ELSE /\ Emit([op |-> "break_jmp",
                     label |-> cg_break_targets[Len(cg_break_targets)],
                     encl |-> Enclosing(cg_stack)])
            /\ UNCHANGED cg_pc
    /\ cg_nodes' = cg_nodes + 1
    /\ UNCHANGED <<cg_stack, cg_break_targets, cg_label_count, cg_lambda_count, cg_cur>>
    /\ UNCHANGED cgOthers

\* any statement without a nested body
GenOther ==
    /\ cg_pc = "gen"
    /\ cg_nodes < MaxNodes
    /\ Emit(Line("other", 0))
    /\ cg_nodes' = cg_nodes + 1
    /\ UNCHANGED <<cg_stack, cg_break_targets, cg_label_count, cg_lambda_count, cg_cur, cg_pc>>
    /\ UNCHANGED cgOthers

\* the rest of the handler of the innermost construct, after its last
\* nested statement
GenLeave ==
    /\ cg_pc = "gen"
    /\ LET top == cg_stack[Len(cg_stack)]
           rest == SubSeq(cg_stack, 1, Len(cg_stack) - 1)
           popped == SubSeq(cg_break_targets, 1, Len(cg_break_targets) - 1)
       IN  IF top.kind \in Breakable
           THEN /\ cg_break_targets' = popped
                /\ Emit(Line("end", top.label))
                /\ cg_stack' = rest
                /\ UNCHANGED <<cg_cur, cg_pc>>
           ELSE IF top.kind = "if_stmt"
           THEN /\ cg_stack' = rest
                /\ UNCHANGED <<cg_break_targets, cg_texts, cg_cur, cg_pc>>
           ELSE IF top.kind = "lambda"
           THEN /\ cg_cur' = top.saved_text
                /\ cg_texts' = [cg_texts EXCEPT
                                  ![cg_cur] = Append(@, Line("other", 0)),
                                  ![top.saved_text] = Append(@, Line("other", 0))]
                /\ cg_stack' = rest
                /\ UNCHANGED <<cg_break_targets, cg_pc>>
           ELSE /\ cg_pc' = "done"
                /\ Emit(Line("other", 0))
                /\ UNCHANGED <<cg_stack, cg_break_targets, cg_cur>>
    /\ UNCHANGED <<cg_label_count, cg_lambda_count, cg_nodes>>
    /\ UNCHANGED cgOthers

CgNext ==
    \/ GenLoop
    \/ GenSwitchEnter
    \/ GenIfEnter
    \/ GenLambdaEnter
    \/ GenBreak
    \/ GenOther
    \/ GenLeave

CgIdle ==
    /\ cg_stack = << >>
    /\ cg_break_targets = << >>
    /\ cg_label_count = 0
    /\ cg_lambda_count = 0
    /\ cg_cur = 0
    /\ cg_texts = << >>
    /\ cg_nodes = 0
    /\ cg_pc = "idle"

\* C5: every jmp emitted for a break targets the end label of the innermost
\* loop or switch that encloses the break within the same function or lambda
\* body, and lies, in the text of that function or lambda, after that
\* construct's first line and (once the construct is closed) before its end
\* label.
C5_BreakBinding ==
    \A t \in DOMAIN cg_texts :
        \A i \in 1..Len(cg_texts[t]) :
            LET l == cg_texts[t][i]
            IN  l.op = "break_jmp" =>
                  /\ l.encl # 0
                  /\ l.label = l.encl
                  /\ \E b \in 1..(i - 1) : cg_texts[t][b] = Line("begin", l.label)
                  /\ cg_pc = "done" =>
                        \E e \in (i + 1)..Len(cg_texts[t]) :
                            cg_texts[t][e] = Line("end", l.label)

(***************************************************************************)
(* Semantic analyzer: break checking.  The walk over a function body is    *)
(* the one of the code generator above; a node's loc is its number.        *)
(***************************************************************************)
\* whether the source encloses a statement written here in a loop or a
\* switch body of the innermost function or lambda
Enclosed(stack) ==
    LET fn == CHOOSE i \in 1..Len(stack) :
                  /\ stack[i] \in FunctionKinds
                  /\ \A j \in (i + 1)..Len(stack) : stack[j] \notin FunctionKinds
    IN  \E i \in (fn + 1)..Len(stack) : stack[i] \in Breakable

BcCanNest == bc_pc = "walk" /\ bc_nodes < MaxNodes /\ Len(bc_stack) < MaxDepth

BcInit ==
    /\ bc_stack = << "func" >>
    /\ bc_break_context = << >>
    /\ bc_errors = << >>
    /\ bc_unenclosed = {}
    /\ bc_nodes = 0
    /\ bc_pc = "walk"

AnalyzeLoopEnter(kind) ==
    /\ BcCanNest
    /\ bc_break_context' = Append(bc_break_context, "loop")
    /\ bc_stack' = Append(bc_stack, kind)
    /\ bc_nodes' = bc_nodes + 1
    /\ UNCHANGED <<bc_errors, bc_unenclosed, bc_pc>>
    /\ UNCHANGED bcOthers

AnalyzeLoop == \E kind \in LoopKinds : AnalyzeLoopEnter(kind)

\* switch, up to the first statement of its first case (or default) body
AnalyzeSwitchEnter ==
    /\ BcCanNest
    /\ bc_break_context' = Append(bc_break_context, "switch")
    /\ bc_stack' = Append(bc_stack, "switch_stmt")
    /\ bc_nodes' = bc_nodes + 1
    /\ UNCHANGED <<bc_errors, bc_unenclosed, bc_pc>>
    /\ UNCHANGED bcOthers

\* from the end of one case body to the start of the next: pop, append
AnalyzeSwitchNextCase ==
    /\ bc_pc = "walk"
    /\ bc_nodes < MaxNodes
    /\ bc_stack[Len(bc_stack)] = "switch_stmt"
    /\ bc_break_context' =
          Append(SubSeq(bc_break_context, 1, Len(bc_break_context) - 1), "switch")
    /\ bc_nodes' = bc_nodes + 1
    /\ UNCHANGED <<bc_stack, bc_errors, bc_unenclosed, bc_pc>>
    /\ UNCHANGED bcOthers

AnalyzeIfEnter ==
    /\ BcCanNest
    /\ bc_stack' = Append(bc_stack, "if_stmt")
    /\ bc_nodes' = bc_nodes + 1
    /\ UNCHANGED <<bc_break_context, bc_errors, bc_unenclosed, bc_pc>>
    /\ UNCHANGED bcOthers

\* lambda: a scope for the parameters is pushed, break_context is left as is
AnalyzeLambdaEnter ==
    /\ BcCanNest
    /\ bc_stack' = Append(bc_stack, "lambda")
    /\ bc_nodes' = bc_nodes + 1
    /\ UNCHANGED <<bc_break_context, bc_errors, bc_unenclosed, bc_pc>>
    /\ UNCHANGED bcOthers

AnalyzeBreak ==
    /\ bc_pc = "walk"
    /\ bc_nodes < MaxNodes
    /\ bc_errors' = IF bc_break_context = << >>
                    THEN Append(bc_errors, [code |-> "E999", loc |-> bc_nodes])
                    ELSE bc_errors
    /\ bc_unenclosed' = IF Enclosed(bc_stack) THEN bc_unenclosed
                        ELSE bc_unenclosed \cup {bc_nodes}
    /\ bc_nodes' = bc_nodes + 1
    /\ UNCHANGED <<bc_stack, bc_break_context, bc_pc>>
    /\ UNCHANGED bcOthers

AnalyzeLeave ==
    /\ bc_pc = "walk"
    /\ LET top == bc_stack[Len(bc_stack)]
           rest == SubSeq(bc_stack, 1, Len(bc_stack) - 1)
       IN  IF top \in Breakable
           THEN /\ bc_break_context' =
                      SubSeq(bc_break_context, 1, Len(bc_break_context) - 1)
                /\ bc_stack' = rest
                /\ UNCHANGED bc_pc
           ELSE IF top \in {"if_stmt", "lambda"}
           THEN /\ bc_stack' = rest
                /\ UNCHANGED <<bc_break_context, bc_pc>>
           ELSE /\ bc_pc' = "done"
                /\ UNCHANGED <<bc_stack, bc_break_context>>
    /\ UNCHANGED <<bc_errors, bc_unenclosed, bc_nodes>>
    /\ UNCHANGED bcOthers

BcNext ==
    \/ AnalyzeLoop
    \/ AnalyzeSwitchEnter
    \/ AnalyzeSwitchNextCase
    \/ AnalyzeIfEnter
    \/ AnalyzeLambdaEnter
    \/ AnalyzeBreak
    \/ AnalyzeLeave

BcIdle ==
    /\ bc_stack = << >>
    /\ bc_break_context = << >>
    /\ bc_errors = << >>
    /\ bc_unenclosed = {}
    /\ bc_nodes = 0
    /\ bc_pc = "idle"

\* C6: the analyzer records an error for a break exactly when no loop body
\* and no switch case body of the same function or lambda body encloses it.
C6_BreakReported ==
    { bc_errors[i].loc : i \in 1..Len(bc_errors) } = bc_unenclosed

(***************************************************************************)
(* Semantic analyzer: the driver SemanticAnalyzer.analyze.  A formatted    *)
(* message is a number, the order of the numbers being the order of the    *)
(* strings.  A top-level node is a function whose body ends with a         *)
(* declaration  int<N> x = v;  and is given as what its handler does: the  *)
(* messages it appends, and N.  1 << (bits - 1) in _check_int_literal_range*)
(* raises ValueError (negative shift count) for N = 0, and nothing in      *)
(* analyze catches it.                                                     *)
(***************************************************************************)
MaxTop == 2            \* top-level nodes of the program

MaxMsgs == 2           \* messages one handler appends

E009Msg == 0

Msgs == 1..2

MsgSeqs == UNION { [1..n -> Msgs] : n \in 0..MaxMsgs }

NodeEffects == [errors : MsgSeqs, warnings : { << >>, <<1>> }, int_bits : {0, 8}]

\* min_val = -(1 << (bits - 1)): Python raises on a negative shift count
RangeCheckRaises(bits) == bits - 1 < 0

RECURSIVE SortedSeq(_)
\* sorted(list(S))
SortedSeq(S) ==
    IF S = {} THEN << >>
    ELSE LET m == CHOOSE x \in S : \A y \in S : x <= y
         IN  <<m>> \o SortedSeq(S \ {m})

Range(s) == { s[i] : i \in 1..Len(s) }

AnInit ==
    /\ an_ast \in UNION { [1..n -> NodeEffects] : n \in 0..MaxTop }
    /\ an_scan \in [errors : { << >>, <<1>> }, has_main : BOOLEAN]
    /\ an_require_main \in BOOLEAN
    /\ an_show_warnings \in BOOLEAN
    /\ an_final \in { << >>, <<2>> }
    /\ an_i = 0
    /\ an_errors = << >>
    /\ an_warnings = << >>
    /\ an_stdout = << >>
    /\ an_pc = "scan"

\* self._scan_declarations(ast); the E009 check
AnalyzeScan ==
    /\ an_pc = "scan"
    /\ an_errors' = an_scan.errors \o
                    (IF an_require_main /\ ~an_scan.has_main THEN <<E009Msg>> ELSE << >>)
    /\ an_pc' = "nodes"
    /\ UNCHANGED <<an_ast, an_scan, an_require_main, an_show_warnings, an_final, an_i,
                   an_warnings, an_stdout>>
    /\ UNCHANGED anOthers

\* one iteration of  for node in ast: self._analyze_node(node)
AnalyzeTopNode ==
    /\ an_pc = "nodes"
    /\ an_i < Len(an_ast)
    /\ LET node == an_ast[an_i + 1]
       IN  /\ an_errors' = an_errors \o node.errors
           /\ an_warnings' = an_warnings \o node.warnings
           /\ an_pc' = IF RangeCheckRaises(node.int_bits) THEN "raised" ELSE "nodes"
           /\ an_i' = IF RangeCheckRaises(node.int_bits) THEN an_i ELSE an_i + 1
    /\ UNCHANGED <<an_ast, an_scan, an_require_main, an_show_warnings, an_final, an_stdout>>
    /\ UNCHANGED anOthers

\* the final checks, after the last node
AnalyzeFinalChecks ==
    /\ an_pc = "nodes"
    /\ an_i = Len(an_ast)
    /\ an_warnings' = an_warnings \o an_final
    /\ an_pc' = "report"
    /\ UNCHANGED <<an_ast, an_scan, an_require_main, an_show_warnings, an_final, an_i,
                   an_errors, an_stdout>>
    /\ UNCHANGED anOthers

\* if self.errors: print ...; sys.exit(1) / if self.warnings and ...: print ...
AnalyzeReport ==
    /\ an_pc = "report"
    /\ IF an_errors # << >>
       THEN /\ an_stdout' = <<[line |-> "ERRORS FOUND", n |-> Len(an_errors)]>>
                            \o [i \in 1..Cardinality(Range(an_errors)) |->
                                  [line |-> "error", n |-> SortedSeq(Range(an_errors))[i]]]
            /\ an_pc' = "exited"
       ELSE IF an_warnings # << >> /\ an_show_warnings
       THEN /\ an_stdout' = <<[line |-> "QUALITY WARNINGS", n |-> Len(an_warnings)]>>
                            \o [i \in 1..Cardinality(Range(an_warnings)) |->
                                  [line |-> "warning", n |-> SortedSeq(Range(an_warnings))[i]]]
            /\ an_pc' = "returned"
       ELSE /\ an_stdout' = << >>
            /\ an_pc' = "returned"
    /\ UNCHANGED <<an_ast, an_scan, an_require_main, an_show_warnings, an_final, an_i,
                   an_errors, an_warnings>>
    /\ UNCHANGED anOthers

AnNext == AnalyzeScan \/ AnalyzeTopNode \/ AnalyzeFinalChecks \/ AnalyzeReport

AnIdle ==
    /\ an_ast = << >>
    /\ an_scan = [errors |-> << >>, has_main |-> TRUE]
    /\ an_require_main = FALSE
    /\ an_show_warnings = FALSE
    /\ an_final = << >>
    /\ an_i = 0
    /\ an_errors = << >>
    /\ an_warnings = << >>
    /\ an_stdout = << >>
    /\ an_pc = "idle"

PrintedErrors ==
    [i \in { j \in 1..Len(an_stdout) : an_stdout[j].line = "error" } |-> an_stdout[i].n]

\* C7: analyze ends by exiting with code 1 exactly when at least one error
\* was recorded and by returning normally otherwise, whatever warnings there
\* are; it exits only after every top-level node was analyzed, and each
\* distinct error message is printed exactly once.
C7_ExitContract ==
    an_pc \in {"exited", "returned", "raised"} =>
        /\ IF an_errors # << >> THEN an_pc = "exited" ELSE an_pc = "returned"
        /\ an_pc = "exited" =>
              /\ an_i = Len(an_ast)
              /\ \A m \in Range(an_errors) :
                    Cardinality({ i \in DOMAIN PrintedErrors : PrintedErrors[i] = m }) = 1
              /\ \A i \in DOMAIN PrintedErrors : PrintedErrors[i] \in Range(an_errors)

(***************************************************************************)
(* Include and namespacing (compile_file).  The user file includes h.c5h   *)
(* and its main holds one use of a name: a call  f(..), a reference to a   *)
(* variable, or a type in a declaration, written bare (n) or qualified     *)
(* (h::n).  A use is [form, tag, base, name] as the parser builds it.      *)
(***************************************************************************)
MaxDecls == 2          \* declarations in the header

DeclTags == {"func", "extern", "struct_decl", "enum_decl", "macro", "type_decl", "pub_var"}

DeclNames == {"n", "m"}

HeaderFile == [stem |-> "h", ext |-> ".c5h"]

\* os.path.splitext(fname)[0]
Namespace(fname) == fname.stem

\* f"{namespace}::{name}"
Qualified(base, name) == base \o "::" \o name

Decls == [tag : DeclTags, name : DeclNames]

DistinctNames(S) == \A d, e \in S : d.name = e.name => d = e

\* parse_primary / parse_type: an ID, then any  :: ID
ParsedUse(form, qualified, n) ==
    IF form = "type"
    THEN [form |-> form, tag |-> "type", base |-> "",
          name |-> IF qualified THEN Qualified(Namespace(HeaderFile), n) ELSE n]
    ELSE IF qualified
    THEN [form |-> form, tag |-> "namespace_access", base |-> Namespace(HeaderFile), name |-> n]
    ELSE [form |-> form, tag |-> "id", base |-> "", name |-> n]

Uses == { ParsedUse(form, q, n) : form \in {"call", "ref", "type"}, q \in BOOLEAN,
                                   n \in DeclNames }

NoResult == [table |-> "none", key |-> ""]

NsInit ==
    /\ ns_header \in { S \in SUBSET Decls : Cardinality(S) <= MaxDecls /\ DistinctNames(S) }
    /\ ns_user \in { S \in SUBSET Decls : Cardinality(S) <= 1 }
    /\ ns_use \in Uses
    /\ ns_ast = {}
    /\ ns_expanded = ""
    /\ ns_result = NoResult
    /\ ns_pc = "include"

\* the include loop: header nodes are renamed, user nodes are kept
NsInclude ==
    /\ ns_pc = "include"
    /\ ns_ast' = { [tag |-> d.tag, name |-> Qualified(Namespace(HeaderFile), d.name),
                    origin |-> "header"] : d \in ns_header }
                 \cup { [tag |-> d.tag, name |-> d.name, origin |-> "user"] : d \in ns_user }
    /\ ns_pc' = "expand"
    /\ UNCHANGED <<ns_header, ns_user, ns_use, ns_expanded, ns_result>>
    /\ UNCHANGED nsOthers

\* _collect_macros
CollectMacros(ast) == { d.name : d \in { e \in ast : e.tag = "macro" } }

\* _expand_macros on the use: only a call whose target is an id is looked up
ExpandMacros(use, macros) ==
    IF use.form = "call" /\ use.tag = "id" /\ use.name \in macros THEN use.name ELSE ""

\* macros are collected and expanded, their definitions removed
NsExpand ==
    /\ ns_pc = "expand"
    /\ ns_expanded' = ExpandMacros(ns_use, CollectMacros(ns_ast))
    /\ ns_ast' = { d \in ns_ast : d.tag # "macro" }
    /\ ns_pc' = "analyze"
    /\ UNCHANGED <<ns_header, ns_user, ns_use, ns_result>>
    /\ UNCHANGED nsOthers

\* the tables _scan_declarations fills
Table(ast, tags) == { d.name : d \in { e \in ast : e.tag \in tags } }

\* the look-ups of _analyze_node (call, id, namespace_access) and of sizeof
Resolve(use, ast) ==
    LET functions == Table(ast, {"func", "extern"})
        structs == Table(ast, {"struct_decl"})
        enums == Table(ast, {"enum_decl"})
        types == Table(ast, {"type_decl"})
        scope0 == Table(ast, {"pub_var"})
        full == IF use.tag = "namespace_access" THEN Qualified(use.base, use.name)
                ELSE use.name
    IN  IF use.form = "call"
        THEN IF use.tag = "id" /\ full \in scope0 THEN [table |-> "scopes", key |-> full]
             ELSE IF full \in functions THEN [table |-> "functions", key |-> full]
             ELSE NoResult
        ELSE IF use.form = "ref" /\ use.tag = "id"
        THEN IF full \in scope0 THEN [table |-> "scopes", key |-> full] ELSE NoResult
        ELSE IF use.form = "ref"
        THEN IF full \in scope0 THEN [table |-> "scopes", key |-> full]
             ELSE IF use.base \in enums THEN [table |-> "enums", key |-> use.base]
             ELSE IF full \in enums THEN [table |-> "enums", key |-> full]
             ELSE IF full \in functions THEN [table |-> "functions", key |-> full]
             ELSE NoResult
        ELSE IF full \in structs THEN [table |-> "structs", key |-> full]
             ELSE IF full \in enums THEN [table |-> "enums", key |-> full]
             ELSE IF full \in types THEN [table |-> "types", key |-> full]
             ELSE NoResult

NsAnalyze ==
    /\ ns_pc = "analyze"
    /\ ns_result' = IF ns_expanded # "" THEN [table |-> "macros", key |-> ns_expanded]
                    ELSE Resolve(ns_use, ns_ast)
    /\ ns_pc' = "done"
    /\ UNCHANGED <<ns_header, ns_user, ns_use, ns_ast, ns_expanded>>
    /\ UNCHANGED nsOthers

NsNext == NsInclude \/ NsExpand \/ NsAnalyze

NsIdle ==
    /\ ns_header = {}
    /\ ns_user = {}
    /\ ns_use = ParsedUse("ref", FALSE, "n")
    /\ ns_ast = {}
    /\ ns_expanded = ""
    /\ ns_result = NoResult
    /\ ns_pc = "idle"

\* how a declaration of each kind is used, and the table that holds it
FormOf(tag) == IF tag \in {"func", "extern", "macro"} THEN "call"
               ELSE IF tag = "pub_var" THEN "ref" ELSE "type"

TableOf(tag) == IF tag \in {"func", "extern"} THEN "functions"
                ELSE IF tag = "struct_decl" THEN "structs"
                ELSE IF tag = "enum_decl" THEN "enums"
                ELSE IF tag = "type_decl" THEN "types"
                ELSE IF tag = "pub_var" THEN "scopes" ELSE "macros"

\* C8: every func, extern, struct, enum, type alias, macro and public
\* variable n of the included header h.c5h resolves, when used as h::n in the
\* way of its kind, to that declaration, and no use of the bare name n
\* resolves to it.
C8_Namespacing ==
    ns_pc = "done" =>
        \A d \in ns_header :
            /\ ns_use = ParsedUse(FormOf(d.tag), TRUE, d.name)
                  => ns_result = [table |-> TableOf(d.tag), key |-> "h::" \o d.name]
            /\ (\E form \in {"call", "ref", "type"} : ns_use = ParsedUse(form, FALSE, d.name))
                  => ns_result.key # "h::" \o d.name

(***************************************************************************)
(* Code generator: struct layout (CodeGen.generate, struct_decl).  A       *)
(* program declares the struct S, or the structs Inner and S in either     *)
(* order, where S may have fields of type Inner; the fields of a struct    *)
(* are the sequence of their types, field_info the sequence of             *)
(* [offset, type] in that order.  A type that names no struct, enum or     *)
(* alias known so far has the size 8 that sizeof falls back to.            *)
(***************************************************************************)
MaxFields == 3         \* fields of the struct S

FieldTypes == { <<"char">>, <<"int<16>">>, <<"int<24>">>, <<"int<32>">>, <<"int<40>">>,
                <<"int">>, <<"const ", "unsigned ", "int<8>">>, <<"float<32>">>,
                <<"char", "*">>, <<"array<", "int", ">">>, <<"Color">>, <<"Num">> }

InnerStructs == { << <<"char">> >>, << <<"int<24>">>, <<"char">> >>,
                  << <<"int">>, <<"char">> >> }

FieldSeqs(types) == UNION { [1..n -> types] : n \in 0..MaxFields }

\* align = sz if sz < 8 else 8
AlignOf(sz) == IF sz < 8 THEN sz ELSE 8

\* if offset % align != 0: offset += align - (offset % align)
PadTo(offset, align) ==
    IF offset % align # 0 THEN offset + (align - (offset % align)) ELSE offset

RECURSIVE LayoutFrom(_, _, _, _)
\* the loop over the fields, from field i on with the cursor at offset
LayoutFrom(fields, i, offset, structs) ==
    IF i > Len(fields) THEN [fields |-> << >>, offset |-> offset]
    ELSE LET sz == SizeOf(fields[i], structs)
             at == PadTo(offset, AlignOf(sz))
             rest == LayoutFrom(fields, i + 1, at + sz, structs)
         IN  [fields |-> <<[offset |-> at, type |-> fields[i]]>> \o rest.fields,
              offset |-> rest.offset]

StructLayout(fields, structs) ==
    LET l == LayoutFrom(fields, 1, 0, structs)
    IN  [size |-> PadTo(l.offset, 8), fields |-> l.fields]

StInit ==
    /\ st_program \in
          { << [name |-> "S", fields |-> f] >> : f \in FieldSeqs(FieldTypes) }
          \cup { IF first = "Inner"
                 THEN << [name |-> "Inner", fields |-> g], [name |-> "S", fields |-> f] >>
                 ELSE << [name |-> "S", fields |-> f], [name |-> "Inner", fields |-> g] >> :
                    first \in {"Inner", "S"}, g \in InnerStructs,
                    f \in FieldSeqs(FieldTypes \cup { <<"Inner">> }) }
    /\ st_structs = << >>
    /\ st_i = 0

GenStructDecl ==
    /\ st_i < Len(st_program)
    /\ LET node == st_program[st_i + 1]
       IN  st_structs' = [n \in DOMAIN st_structs \cup {node.name} |->
                            IF n = node.name THEN StructLayout(node.fields, st_structs)
                            ELSE st_structs[n]]
    /\ st_i' = st_i + 1
    /\ UNCHANGED st_program
    /\ UNCHANGED stOthers

StNext == GenStructDecl

StIdle ==
    /\ st_program = << >>
    /\ st_structs = << >>
    /\ st_i = 0

\* the smallest multiple of a that is at least c
SmallestMultiple(a, c) ==
    CHOOSE m \in c..(c + a) : m % a = 0 /\ \A k \in c..(m - 1) : k % a # 0

MinOf(a, b) == IF a <= b THEN a ELSE b

\* the struct_decl node whose layout is stored under name n
DeclOf(n) == CHOOSE d \in { st_program[k] : k \in 1..st_i } : d.name = n

\* where field i of the struct n ends: its offset plus the size of its type
FieldEnd(n, i) ==
    IF i = 0 THEN 0
    ELSE st_structs[n].fields[i].offset + SizeOf(DeclOf(n).fields[i], st_structs)

\* C9: in every generated struct the fields are laid out in declaration
\* order, the offset of field i being the smallest multiple of
\* min(sizeof(T_i), 8) at or after the end of field i-1 (0 for the first),
\* so that fields never overlap, and the size of the struct is the smallest
\* multiple of 8 at or after the end of the last field.
C9_StructLayout ==
    \A n \in DOMAIN st_structs :
        LET fields == DeclOf(n).fields
            info == st_structs[n].fields
        IN  /\ Len(info) = Len(fields)
            /\ \A i \in 1..Len(fields) :
                  /\ info[i].type = fields[i]
                  /\ info[i].offset =
                        SmallestMultiple(MinOf(SizeOf(fields[i], st_structs), 8), FieldEnd(n, i - 1))
                  /\ info[i].offset >= FieldEnd(n, i - 1)
            /\ st_structs[n].size = SmallestMultiple(8, FieldEnd(n, Len(fields)))

(***************************************************************************)
(* Semantic analyzer: _types_compatible on a pair of type strings, with    *)
(* self.types holding the union aliases Num and Val                        *)
(***************************************************************************)
CompatTypes == { <<"int">>, <<"int<64>">>, <<"int<8>">>, <<"char">>,
                 <<"float">>, <<"float<64>">>, <<"float<32>">>, <<"char", "*">>,
                 <<"const ", "int">>, <<"const ", "int<64>">>, <<"const ", "float">>,
                 <<"Num">>, <<"Val">> }

TcInit ==
    /\ tc_target \in CompatTypes
    /\ tc_source \in CompatTypes
    /\ tc_pc = "call"
    /\ tc_result = FALSE

TypesCompatibleCall ==
    /\ tc_pc = "call"
    /\ tc_result' = TypesCompatible(tc_target, tc_source)
    /\ tc_pc' = "done"
    /\ UNCHANGED <<tc_target, tc_source>>
    /\ UNCHANGED tcOthers

TcNext == TypesCompatibleCall

TcIdle ==
    /\ tc_target = << >>
    /\ tc_source = << >>
    /\ tc_pc = "idle"
    /\ tc_result = FALSE

RECURSIVE StatedCompatible(_, _)
\* compatibility as the claim C10 defines it
StatedCompatible(target, source) ==
    IF IsUnion(target)
    THEN LET members == UnionMembers(target[1])
         IN  \E i \in 1..Len(members) : StatedCompatible(members[i], source)
    ELSE /\ ~IsUnion(source)
         /\ NormalizeType(StripConst(target)) = NormalizeType(StripConst(source))

\* C10: _types_compatible(target, source) is true iff target is a union
\* alias with a member compatible with source, or neither is a union alias
\* and the two are equal after normalization (int = int<64>,
\* float = float<64>) with a const prefix stripped from both; a const int
\* target accepts an int source, and a non-union target rejects a union
\* source.
C10_TypesCompatible ==
    tc_pc = "done" => (tc_result <=> StatedCompatible(tc_target, tc_source))

(***************************************************************************)
(* Semantic analyzer: scopes, declarations, uses and assignments.  One     *)
(* function is analyzed after the pre-pass has stored the globals in       *)
(* scopes[0]; its body is walked statement by statement.  A frame of       *)
(* sc_stack records the construct that is open, the scope stack at its     *)
(* entry and the names its own body has declared so far.                   *)
(***************************************************************************)
MaxStmts == 4        \* nodes analyzed in the function
MaxNest == 3         \* constructs open at once, the function included

VarNames == {"x", "y"}

VarTypes == { <<"int">>, <<"const ", "int">> }

\* the body blocks that the handlers walk without touching self.scopes
BlockKinds == {"if_then", "if_else", "while_stmt", "for_stmt", "do_while_stmt"}

EmptyScope == [n \in {} |-> <<"int">>]

\* scope[name] = ty
Bind(scope, name, ty) ==
    [n \in DOMAIN scope \cup {name} |-> IF n = name THEN ty ELSE scope[n]]

\* the globals the pre-pass has put in scopes[0]: the array a, and perhaps x
GlobalScopes ==
    { Bind(EmptyScope, "a", <<"array<", "int", ">">>) }
    \cup { Bind(Bind(EmptyScope, "a", <<"array<", "int", ">">>), "x", ty) : ty \in VarTypes }

InScopes(scopes, name) == \E k \in 1..Len(scopes) : name \in DOMAIN scopes[k]

\* for scope in reversed(self.scopes): if name in scope
LastScopeWith(scopes, name) ==
    CHOOSE k \in 1..Len(scopes) :
        /\ name \in DOMAIN scopes[k]
        /\ \A j \in (k + 1)..Len(scopes) : name \notin DOMAIN scopes[j]

\* for scope in self.scopes: if name in scope
FirstScopeWith(scopes, name) ==
    CHOOSE k \in 1..Len(scopes) :
        /\ name \in DOMAIN scopes[k]
        /\ \A j \in 1..(k - 1) : name \notin DOMAIN scopes[j]

\* SemanticAnalyzer._get_type on ('id', name)
GetTypeId(scopes, name) ==
    IF InScopes(scopes, name)
    THEN StripConst(scopes[LastScopeWith(scopes, name)][name])
    ELSE <<"unknown">>

ScError(code, name) == [code |-> code, name |-> name, loc |-> sc_nodes]

ScTop == sc_stack[Len(sc_stack)]

ScCanWalk == sc_pc = "walk" /\ sc_nodes < MaxStmts

ScCanNest == ScCanWalk /\ Len(sc_stack) < MaxNest

\* the top frame with one more declared name
Declare(stack, names) ==
    [stack EXCEPT ![Len(stack)].declared = @ \cup names]

ScInit ==
    /\ sc_scopes \in { <<g>> : g \in GlobalScopes }
    /\ sc_stack = << >>
    /\ sc_errors = {}
    /\ sc_op = [tag |-> "none", name |-> ""]
    /\ sc_nodes = 0
    /\ sc_pc = "scan"

\* func: scopes.append(dict(scopes[0])), then the parameters
AnalyzeFuncEnter(params) ==
    /\ sc_pc = "scan"
    /\ sc_scopes' = Append(sc_scopes,
                       [n \in DOMAIN sc_scopes[1] \cup DOMAIN params |->
                           IF n \in DOMAIN params THEN params[n] ELSE sc_scopes[1][n]])
    /\ sc_stack' = << [kind |-> "func", entry |-> sc_scopes, declared |-> DOMAIN params] >>
    /\ sc_op' = [tag |-> "func", name |-> ""]
    /\ sc_pc' = "walk"
    /\ UNCHANGED <<sc_errors, sc_nodes>>
    /\ UNCHANGED scOthers

AnalyzeFunc ==
    \E params \in {EmptyScope} \cup { Bind(EmptyScope, "x", ty) : ty \in VarTypes } :
        AnalyzeFuncEnter(params)

\* var_decl without initializer
AnalyzeLocalDecl(ty, name) ==
    /\ ScCanWalk
    /\ sc_errors' = IF name \in DOMAIN sc_scopes[Len(sc_scopes)]
                    THEN sc_errors \cup {ScError("E015", name)}
                    ELSE sc_errors
    /\ sc_scopes' = [sc_scopes EXCEPT ![Len(sc_scopes)] = Bind(@, name, ty)]
    /\ sc_stack' = Declare(sc_stack, {name})
    /\ sc_op' = [tag |-> "var_decl", name |-> name]
    /\ sc_nodes' = sc_nodes + 1
    /\ UNCHANGED sc_pc
    /\ UNCHANGED scOthers

AnalyzeDecl == \E ty \in VarTypes, name \in VarNames : AnalyzeLocalDecl(ty, name)

\* id
AnalyzeIdUse(name) ==
    /\ ScCanWalk
    /\ sc_errors' = IF InScopes(sc_scopes, name) THEN sc_errors
                    ELSE sc_errors \cup {ScError("E001", name)}
    /\ sc_op' = [tag |-> "id", name |-> name]
    /\ sc_nodes' = sc_nodes + 1
    /\ UNCHANGED <<sc_scopes, sc_stack, sc_pc>>
    /\ UNCHANGED scOthers

AnalyzeId == \E name \in VarNames : AnalyzeIdUse(name)

\* assign with left = ('id', name) and right = ('number', 0)
AnalyzeAssignTo(name) ==
    /\ ScCanWalk
    /\ LET l_ty == GetTypeId(sc_scopes, name)
           undefined == IF InScopes(sc_scopes, name) THEN {}
                        ELSE {ScError("E001", name)}
           literal == IF IsIntegerType(l_ty) THEN {}
                      ELSE {ScError("E002", name)}
           const == IF /\ InScopes(sc_scopes, name)
                       /\ StartsWith(sc_scopes[FirstScopeWith(sc_scopes, name)][name], "const ")
                    THEN {ScError("E042", name)}
                    ELSE {}
       IN  sc_errors' = sc_errors \cup undefined \cup literal \cup const
    /\ sc_op' = [tag |-> "assign", name |-> name]
    /\ sc_nodes' = sc_nodes + 1
    /\ UNCHANGED <<sc_scopes, sc_stack, sc_pc>>
    /\ UNCHANGED scOthers

AnalyzeAssign == \E name \in VarNames : AnalyzeAssignTo(name)

\* if_stmt, while_stmt, for_stmt, do_while_stmt up to the first statement
\* of the body: no scope is pushed
AnalyzeBlockEnter(kind) ==
    /\ ScCanNest
    /\ sc_stack' = Append(sc_stack, [kind |-> kind, entry |-> sc_scopes, declared |-> {}])
    /\ sc_op' = [tag |-> "enter", name |-> ""]
    /\ sc_nodes' = sc_nodes + 1
    /\ UNCHANGED <<sc_scopes, sc_errors, sc_pc>>
    /\ UNCHANGED scOthers

AnalyzeBlock == \E kind \in BlockKinds \ {"if_else"} : AnalyzeBlockEnter(kind)

\* if_stmt: from the end of the then body to the start of the else body
AnalyzeElse ==
    /\ sc_pc = "walk"
    /\ sc_stack # << >>
    /\ ScTop.kind = "if_then"
    /\ sc_stack' = [sc_stack EXCEPT ![Len(sc_stack)] =
                       [kind |-> "if_else", entry |-> @.entry, declared |-> {}]]
    /\ sc_op' = [tag |-> "else", name |-> ""]
    /\ UNCHANGED <<sc_scopes, sc_errors, sc_nodes, sc_pc>>
    /\ UNCHANGED scOthers

\* foreach (index_var, value_var in a): a new scope with both variables
AnalyzeForeachEnter(index_var, value_var) ==
    /\ ScCanNest
    /\ sc_scopes' = Append(sc_scopes,
                       Bind(Bind(EmptyScope, index_var, <<"int">>), value_var, <<"int">>))
    /\ sc_stack' = Append(sc_stack, [kind |-> "foreach_stmt", entry |-> sc_scopes,
                                     declared |-> {index_var, value_var}])
    /\ sc_op' = [tag |-> "enter", name |-> ""]
    /\ sc_nodes' = sc_nodes + 1
    /\ UNCHANGED <<sc_errors, sc_pc>>
    /\ UNCHANGED scOthers

AnalyzeForeach ==
    \E index_var \in VarNames : \E value_var \in VarNames \ {index_var} :
        AnalyzeForeachEnter(index_var, value_var)

\* lambda with one parameter: a new scope with the parameter
AnalyzeLambdaScope(pty, pname) ==
    /\ ScCanNest
    /\ sc_scopes' = Append(sc_scopes, Bind(EmptyScope, pname, pty))
    /\ sc_stack' = Append(sc_stack, [kind |-> "lambda", entry |-> sc_scopes,
                                     declared |-> {pname}])
    /\ sc_op' = [tag |-> "enter", name |-> ""]
    /\ sc_nodes' = sc_nodes + 1
    /\ UNCHANGED <<sc_errors, sc_pc>>
    /\ UNCHANGED scOthers

AnalyzeLambda == \E pty \in VarTypes, pname \in VarNames : AnalyzeLambdaScope(pty, pname)

\* the end of the body of the innermost open construct
AnalyzeScopeLeave ==
    /\ sc_pc = "walk"
    /\ sc_stack # << >>
    /\ sc_scopes' = IF ScTop.kind \in BlockKinds THEN sc_scopes
                    ELSE SubSeq(sc_scopes, 1, Len(sc_scopes) - 1)
    /\ sc_stack' = SubSeq(sc_stack, 1, Len(sc_stack) - 1)
    /\ sc_pc' = IF ScTop.kind = "func" THEN "done" ELSE "walk"
    /\ sc_op' = [tag |-> "leave", name |-> ""]
    /\ UNCHANGED <<sc_errors, sc_nodes>>
    /\ UNCHANGED scOthers

ScNext ==
    \/ AnalyzeFunc
    \/ AnalyzeDecl
    \/ AnalyzeId
    \/ AnalyzeAssign
    \/ AnalyzeBlock
    \/ AnalyzeElse
    \/ AnalyzeForeach
    \/ AnalyzeLambda
    \/ AnalyzeScopeLeave

ScIdle ==
    /\ sc_scopes = << >>
    /\ sc_stack = << >>
    /\ sc_errors = {}
    /\ sc_op = [tag |-> "none", name |-> ""]
    /\ sc_nodes = 0
    /\ sc_pc = "idle"

\* the type of the binding that name lookup resolves to: the innermost one
Binding(scopes, name) == scopes[LastScopeWith(scopes, name)][name]

\* C11: an assignment x = e is reported as a Const violation exactly when
\* the binding of x that lookup resolves to, the innermost visible one, has
\* a const-qualified type; a shadowed outer binding does not count.
C11_ConstAssign ==
    [][sc_op'.tag = "assign"
        => ( ScError("E042", sc_op'.name) \in sc_errors'
             <=> ( /\ InScopes(sc_scopes, sc_op'.name)
                   /\ StartsWith(Binding(sc_scopes, sc_op'.name), "const ") ) )]_vars

\* the names visible at this point of the source under block scoping: the
\* globals and what the open constructs have declared
LexVisible == DOMAIN sc_stack[1].entry[1]
              \cup UNION { sc_stack[k].declared : k \in 1..Len(sc_stack) }

\* C12: a variable declared in the body block of an if/else, while, for or
\* do-while lives until the end of that block: at the end of the block the
\* scope stack is what it was at its start, a use of a name that no open
\* construct and no global declares is reported as undefined, and declaring
\* in a block a name that only closed blocks have declared is not reported
\* as a redeclaration.
C12_BlockScope ==
    [][ /\ (sc_op'.tag \in {"leave", "else"} /\ ScTop.kind \in BlockKinds)
            => sc_scopes' = ScTop.entry
        /\ sc_op'.tag = "id"
            => (ScError("E001", sc_op'.name) \in sc_errors' <=> sc_op'.name \notin LexVisible)
        /\ (sc_op'.tag = "var_decl" /\ ScTop.kind \in BlockKinds
              /\ sc_op'.name \notin LexVisible)
            => ScError("E015", sc_op'.name) \notin sc_errors' ]_vars

\* a lambda body is being analyzed
InLambda == \E k \in 1..Len(sc_stack) : sc_stack[k].kind = "lambda"

\* the globals, and what the innermost lambda and the constructs open in
\* its body have declared
LambdaVisible ==
    LET l == CHOOSE k \in 1..Len(sc_stack) :
                 /\ sc_stack[k].kind = "lambda"
                 /\ \A j \in (k + 1)..Len(sc_stack) : sc_stack[j].kind # "lambda"
    IN  DOMAIN sc_stack[1].entry[1] \cup UNION { sc_stack[k].declared : k \in l..Len(sc_stack) }

\* the names declared by the constructs that enclose the innermost lambda
EnclosingLocals ==
    LET l == CHOOSE k \in 1..Len(sc_stack) :
                 /\ sc_stack[k].kind = "lambda"
                 /\ \A j \in (k + 1)..Len(sc_stack) : sc_stack[j].kind # "lambda"
    IN  UNION { sc_stack[k].declared : k \in 1..(l - 1) }

\* C24: lambdas do not capture: inside a lambda body a reference to a
\* local variable or parameter of the enclosing function, which is neither
\* a global nor a parameter or local of the lambda, is reported as an
\* undefined symbol (E001).
C24_NoCapture ==
    [][ (sc_op'.tag = "id" /\ InLambda
           /\ sc_op'.name \in EnclosingLocals /\ sc_op'.name \notin LambdaVisible)
            => ScError("E001", sc_op'.name) \in sc_errors' ]_vars

(***************************************************************************)
(* Global variables: compile_file on a program with one top-level          *)
(*   let T g = v;                                                          *)
(* T an integer type and v an integer literal: pre-pass, analysis, error   *)
(* report, and the data directive the code generator emits for g.          *)
(***************************************************************************)
GvInit ==
    /\ \E d \in TypeDescs, v \in LiteralValues :
          gv_decl = [desc |-> d, ty |-> TypeString(d), val |-> v]
    /\ gv_scope0 = EmptyScope
    /\ gv_errors = << >>
    /\ gv_data = << >>
    /\ gv_pc = "scan"

\* _scan_declarations, pub_var: the name and its type go to scopes[0]
ScanPubVar ==
    /\ gv_pc = "scan"
    /\ gv_errors' = IF "g" \in DOMAIN gv_scope0 THEN Append(gv_errors, "E015") ELSE gv_errors
    /\ gv_scope0' = Bind(gv_scope0, "g", gv_decl.ty)
    /\ gv_pc' = "analyze"
    /\ UNCHANGED <<gv_decl, gv_data>>
    /\ UNCHANGED gvOthers

\* _analyze_node, pub_var: only the initializer is analyzed, and a number
\* node records nothing
AnalyzePubVar ==
    /\ gv_pc = "analyze"
    /\ gv_pc' = "report"
    /\ UNCHANGED <<gv_decl, gv_scope0, gv_errors, gv_data>>
    /\ UNCHANGED gvOthers

\* the end of analyze: sys.exit(1) when errors were recorded
AnalyzeGlobalsReport ==
    /\ gv_pc = "report"
    /\ gv_pc' = IF gv_errors # << >> THEN "exit" ELSE "gen"
    /\ UNCHANGED <<gv_decl, gv_scope0, gv_errors, gv_data>>
    /\ UNCHANGED gvOthers

\* the directive for an initializer of sz bytes
DataDirective(sz) ==
    IF sz = 1 THEN ".byte"
    ELSE IF sz = 2 THEN ".short"
    ELSE IF sz = 4 THEN ".long"
    ELSE ".quad"

\* CodeGen.generate, pub_var with a number initializer
GenPubVar ==
    /\ gv_pc = "gen"
    /\ gv_data' = << <<".global", "g">>, <<"label", "g">>,
                     <<DataDirective(SizeOf(gv_decl.ty, NoStructs)), gv_decl.val>> >>
    /\ gv_pc' = "done"
    /\ UNCHANGED <<gv_decl, gv_scope0, gv_errors>>
    /\ UNCHANGED gvOthers

GvNext ==
    \/ ScanPubVar
    \/ AnalyzePubVar
    \/ AnalyzeGlobalsReport
    \/ GenPubVar

GvIdle ==
    /\ gv_decl = [desc |-> [const |-> FALSE, sign |-> "none", base |-> "int"],
                  ty |-> <<"int">>, val |-> BigOfNat(0)]
    /\ gv_scope0 = EmptyScope
    /\ gv_errors = << >>
    /\ gv_data = << >>
    /\ gv_pc = "idle"

\* C14: a top-level let T g = v with T an integer type and v a literal
\* outside T's range ends with an Integer Overflow error (E023) recorded
\* and no assembly produced for g.
C14_GlobalRangeCheck ==
    (gv_pc \in {"gen", "exit", "done"} /\ ~InDeclaredRange(gv_decl.desc, gv_decl.val))
        => ( /\ \E i \in 1..Len(gv_errors) : gv_errors[i] = "E023"
             /\ gv_pc = "exit"
             /\ gv_data = << >> )

(***************************************************************************)
(* Code generator: the text of one function (CodeGen.gen_func).  The body  *)
(* is a walk over expression statements, returns, if (with or without      *)
(* else) and while statements.  A line is <<"label", l>>, <<"je", l>>,     *)
(* <<"jmp", l>>, <<"leave">>, <<"ret">>, <<"mov", "$0", "%eax">>, or       *)
(* <<"op">> for any other instruction, which continues with the next line. *)
(***************************************************************************)
FuncNames == {"main", "f"}

\* a label: the prefix and the number after it (0 for the function's name)
FnLabel(prefix, n) == <<prefix, n>>

FnTop == fn_stack[Len(fn_stack)]

FnCanWalk == fn_pc = "body" /\ fn_stmts < MaxStmts

FnInit ==
    /\ fn_name \in FuncNames
    /\ fn_text = << >>
    /\ fn_stack = << >>
    /\ fn_has_return = FALSE
    /\ fn_label_count \in 0..1
    /\ fn_stmts = 0
    /\ fn_body_end = 0
    /\ fn_pc = "start"

\* gen_func up to the first statement of the body (no parameters)
GenFuncEntry ==
    /\ fn_pc = "start"
    /\ fn_text' = << <<"label", FnLabel(fn_name, 0)>>, <<"op">>, <<"op">>, <<"op">> >>
    /\ fn_has_return' = FALSE
    /\ fn_pc' = "body"
    /\ UNCHANGED <<fn_name, fn_stack, fn_label_count, fn_stmts, fn_body_end>>
    /\ UNCHANGED fnOthers

\* expr_stmt
GenExprStmt ==
    /\ FnCanWalk
    /\ fn_text' = Append(fn_text, <<"op">>)
    /\ fn_stmts' = fn_stmts + 1
    /\ UNCHANGED <<fn_name, fn_stack, fn_has_return, fn_label_count, fn_body_end, fn_pc>>
    /\ UNCHANGED fnOthers

\* return_stmt with a scalar expression, or without one
GenReturnStmt(has_expr) ==
    /\ FnCanWalk
    /\ fn_has_return' = TRUE
    /\ fn_text' = fn_text \o (IF has_expr THEN << <<"op">> >> ELSE << >>)
                          \o << <<"leave">>, <<"ret">> >>
    /\ fn_stmts' = fn_stmts + 1
    /\ UNCHANGED <<fn_name, fn_stack, fn_label_count, fn_body_end, fn_pc>>
    /\ UNCHANGED fnOthers

GenReturn == \E has_expr \in BOOLEAN : GenReturnStmt(has_expr)

\* if_stmt up to the first statement of the then body
GenIfStmt(else_body) ==
    /\ FnCanWalk
    /\ Len(fn_stack) < MaxNest
    /\ fn_label_count' = fn_label_count + 1
    /\ fn_text' = fn_text \o << <<"op">>, <<"op">>,
                                <<"je", IF else_body THEN FnLabel(".Lelse", fn_label_count')
                                        ELSE FnLabel(".Lend", fn_label_count')>> >>
    /\ fn_stack' = Append(fn_stack, [kind |-> "if_then", n |-> fn_label_count',
                                     else_body |-> else_body])
    /\ fn_stmts' = fn_stmts + 1
    /\ UNCHANGED <<fn_name, fn_has_return, fn_body_end, fn_pc>>
    /\ UNCHANGED fnOthers

GenIf == \E else_body \in BOOLEAN : GenIfStmt(else_body)

\* if_stmt from the end of the then body to the first statement of the else body
GenIfElse ==
    /\ fn_pc = "body"
    /\ fn_stack # << >>
    /\ FnTop.kind = "if_then"
    /\ FnTop.else_body
    /\ fn_text' = fn_text \o << <<"jmp", FnLabel(".Lend", FnTop.n)>>,
                                <<"label", FnLabel(".Lelse", FnTop.n)>> >>
    /\ fn_stack' = [fn_stack EXCEPT ![Len(fn_stack)].kind = "if_else"]
    /\ UNCHANGED <<fn_name, fn_has_return, fn_label_count, fn_stmts, fn_body_end, fn_pc>>
    /\ UNCHANGED fnOthers

\* while_stmt up to the first statement of the body
GenWhileStmt ==
    /\ FnCanWalk
    /\ Len(fn_stack) < MaxNest
    /\ fn_label_count' = fn_label_count + 1
    /\ fn_text' = fn_text \o << <<"label", FnLabel(".Lwhile_cond", fn_label_count')>>,
                                <<"op">>, <<"op">>,
                                <<"je", FnLabel(".Lwhile_end", fn_label_count')>> >>
    /\ fn_stack' = Append(fn_stack, [kind |-> "while_stmt", n |-> fn_label_count',
                                     else_body |-> FALSE])
    /\ fn_stmts' = fn_stmts + 1
    /\ UNCHANGED <<fn_name, fn_has_return, fn_body_end, fn_pc>>
    /\ UNCHANGED fnOthers

\* the end of the innermost open if or while statement
GenStmtEnd ==
    /\ fn_pc = "body"
    /\ fn_stack # << >>
    /\ ~(FnTop.kind = "if_then" /\ FnTop.else_body)
    /\ fn_text' = fn_text \o
          (IF FnTop.kind = "while_stmt"
           THEN << <<"jmp", FnLabel(".Lwhile_cond", FnTop.n)>>,
                   <<"label", FnLabel(".Lwhile_end", FnTop.n)>> >>
           ELSE << <<"label", FnLabel(".Lend", FnTop.n)>> >>)
    /\ fn_stack' = SubSeq(fn_stack, 1, Len(fn_stack) - 1)
    /\ UNCHANGED <<fn_name, fn_has_return, fn_label_count, fn_stmts, fn_body_end, fn_pc>>
    /\ UNCHANGED fnOthers

\* gen_func after the last statement of the body
GenFuncEnd ==
    /\ fn_pc = "body"
    /\ fn_stack = << >>
    /\ fn_body_end' = Len(fn_text)
    /\ fn_text' = fn_text \o
          (IF ~fn_has_return
           THEN (IF fn_name = "main" THEN << <<"mov", "$0", "%eax">> >> ELSE << >>)
                \o << <<"leave">>, <<"ret">> >>
           ELSE << >>)
    /\ fn_pc' = "done"
    /\ UNCHANGED <<fn_name, fn_stack, fn_has_return, fn_label_count, fn_stmts>>
    /\ UNCHANGED fnOthers

FnNext ==
    \/ GenFuncEntry
    \/ GenExprStmt
    \/ GenReturn
    \/ GenIf
    \/ GenIfElse
    \/ GenWhileStmt
    \/ GenStmtEnd
    \/ GenFuncEnd

FnIdle ==
    /\ fn_name = ""
    /\ fn_text = << >>
    /\ fn_stack = << >>
    /\ fn_has_return = FALSE
    /\ fn_label_count = 0
    /\ fn_stmts = 0
    /\ fn_body_end = 0
    /\ fn_pc = "idle"

\* where execution continues after line i of text; Len(text) + 1 stands for
\* whatever follows the function
LabelIndex(text, l) == CHOOSE i \in 1..Len(text) : text[i] = <<"label", l>>

Successors(text, i) ==
    IF i > Len(text) THEN {}
    ELSE IF text[i][1] = "ret" THEN {}
    ELSE IF text[i][1] = "jmp" THEN {LabelIndex(text, text[i][2])}
    ELSE IF text[i][1] = "je" THEN {i + 1, LabelIndex(text, text[i][2])}
    ELSE {i + 1}

RECURSIVE ReachableFrom(_, _)
ReachableFrom(text, seen) ==
    LET more == seen \cup UNION { Successors(text, i) : i \in seen }
    IN  IF more = seen THEN seen ELSE ReachableFrom(text, more)

Reachable(text) == ReachableFrom(text, {1})

\* C15: the emitted function exits via leave; ret on every path: no path
\* from its first line runs past its last line, every ret follows a leave,
\* and when the end of main's body can be reached, the body is followed by
\* mov $0, %eax; leave; ret.
C15_LeaveRet ==
    fn_pc = "done" =>
        /\ Len(fn_text) + 1 \notin Reachable(fn_text)
        /\ \A i \in 1..Len(fn_text) :
              fn_text[i] = <<"ret">> => (i > 1 /\ fn_text[i - 1] = <<"leave">>)
        /\ (fn_name = "main" /\ fn_body_end + 1 \in Reachable(fn_text))
              => SubSeq(fn_text, fn_body_end + 1, Len(fn_text))
                    = << <<"mov", "$0", "%eax">>, <<"leave">>, <<"ret">> >>

(***************************************************************************)
(* Code generator: switch (gen_stmt, switch_stmt) and the execution of the *)
(* emitted lines.  A case is [val, body]; a body is a sequence of "stmt"   *)
(* (any statement without a jump), "break" and "return"; default_body is   *)
(* a body or None.  Statement j of case i is the line <<"body", i>>;       *)
(* the default body has the index Len(cases) + 1.                          *)
(***************************************************************************)
MaxCases == 2        \* cases of the switch

CaseValues == {1, 2}

ScrutineeValues == {1, 2, 3}

Bodies == { << >>, <<"stmt">>, <<"stmt", "break">>, <<"break">>, <<"stmt", "return">> }

None == <<"None">>

SwitchNodes ==
    [cases : UNION { [1..n -> [val : CaseValues, body : Bodies]] : n \in 0..MaxCases },
     default_body : Bodies \cup {None}]

SwLabel(kind, n, i) == [kind |-> kind, n |-> n, i |-> i]

\* gen_stmt on the statements of a body, inside the switch numbered n
RECURSIVE GenBody(_, _, _, _)
GenBody(body, k, i, n) ==
    IF k > Len(body) THEN << >>
    ELSE (IF body[k] = "stmt" THEN << <<"body", i>> >>
          ELSE IF body[k] = "break" THEN << <<"jmp", SwLabel(".Lswitch_end", n, 0)>> >>
          ELSE << <<"leave">>, <<"ret">> >>)
         \o GenBody(body, k + 1, i, n)

\* cmp $case_val, %rax; je case_label, for the cases from i on
RECURSIVE GenCompares(_, _, _)
GenCompares(cases, i, n) ==
    IF i > Len(cases) THEN << >>
    ELSE << <<"cmp", cases[i].val>>, <<"je", SwLabel(".Lcase", n, i - 1)>> >>
         \o GenCompares(cases, i + 1, n)

\* the case labels and bodies from case i on
RECURSIVE GenCases(_, _, _)
GenCases(cases, i, n) ==
    IF i > Len(cases) THEN << >>
    ELSE << <<"label", SwLabel(".Lcase", n, i - 1)>> >>
         \o GenBody(cases[i].body, 1, i, n)
         \o GenCases(cases, i + 1, n)

\* if default_body: a body that is None or empty counts as absent
HasDefault(node) == node.default_body # None /\ node.default_body # << >>

\* the jump taken when no case matched, that always leaves the switch
NoMatchSkipsDefault(node, n) == <<"jmp", SwLabel(".Lswitch_end", n, 0)>>

\* the jump taken when no case matched
NoMatchJump(node, n) ==
    IF HasDefault(node) THEN <<"jmp", SwLabel(".Ldefault", n, 0)>>
    ELSE <<"jmp", SwLabel(".Lswitch_end", n, 0)>>

GenSwitchText(node, n) ==
    << <<"eval">> >>
    \o GenCompares(node.cases, 1, n)
    \o << NoMatchJump(node, n) >>
    \o GenCases(node.cases, 1, n)
    \o (IF HasDefault(node)
        THEN << <<"label", SwLabel(".Ldefault", n, 0)>> >>
             \o GenBody(node.default_body, 1, Len(node.cases) + 1, n)
        ELSE << >>)
    \o << <<"label", SwLabel(".Lswitch_end", n, 0)>> >>

SwInit ==
    /\ sw_node \in SwitchNodes
    /\ sw_value \in ScrutineeValues
    /\ sw_label_count \in 0..1
    /\ sw_text = << >>
    /\ sw_ip = 1
    /\ sw_rax = 0
    /\ sw_zf = FALSE
    /\ sw_trace = << >>
    /\ sw_pc = "gen"

\* gen_stmt, switch_stmt
GenSwitchStmt ==
    /\ sw_pc = "gen"
    /\ sw_label_count' = sw_label_count + 1
    /\ sw_text' = GenSwitchText(sw_node, sw_label_count')
    /\ sw_pc' = "run"
    /\ UNCHANGED <<sw_node, sw_value, sw_ip, sw_rax, sw_zf, sw_trace>>
    /\ UNCHANGED swOthers

SwLabelIndex(l) == CHOOSE i \in 1..Len(sw_text) : sw_text[i] = <<"label", l>>

\* the processor executes the line at sw_ip
ExecSwitchLine ==
    /\ sw_pc = "run"
    /\ LET line == sw_text[sw_ip]
           op == line[1]
       IN  /\ sw_rax' = IF op = "eval" THEN sw_value
                        ELSE IF op = "body" THEN 0
                        ELSE sw_rax
           /\ sw_zf' = IF op = "cmp" THEN sw_rax = line[2] ELSE sw_zf
           /\ sw_trace' = IF op = "body" THEN Append(sw_trace, line[2]) ELSE sw_trace
           /\ sw_ip' = IF op = "jmp" \/ (op = "je" /\ sw_zf) THEN SwLabelIndex(line[2])
                       ELSE sw_ip + 1
           /\ sw_pc' = IF op = "ret" THEN "returned"
                       ELSE IF line = <<"label", SwLabel(".Lswitch_end", sw_label_count, 0)>>
                            THEN "end"
                       ELSE "run"
    /\ UNCHANGED <<sw_node, sw_value, sw_label_count, sw_text>>
    /\ UNCHANGED swOthers

SwNext ==
    \/ GenSwitchStmt
    \/ ExecSwitchLine

SwIdle ==
    /\ sw_node = [cases |-> << >>, default_body |-> None]
    /\ sw_value = 0
    /\ sw_label_count = 0
    /\ sw_text = << >>
    /\ sw_ip = 1
    /\ sw_rax = 0
    /\ sw_zf = FALSE
    /\ sw_trace = << >>
    /\ sw_pc = "idle"

\* the bodies in source order: the cases, then the default body
SourceBodies(node) ==
    [i \in 1..(Len(node.cases) + 1) |->
        IF i <= Len(node.cases) THEN node.cases[i].body
        ELSE IF node.default_body = None THEN << >> ELSE node.default_body]

\* the first case whose constant is v, or the default position
EntryBody(node, v) ==
    IF \E i \in 1..Len(node.cases) : node.cases[i].val = v
    THEN CHOOSE i \in 1..Len(node.cases) :
            /\ node.cases[i].val = v
            /\ \A j \in 1..(i - 1) : node.cases[j].val # v
    ELSE Len(node.cases) + 1

\* fall-through from statement k of body i on: the statements run, and how
\* the switch is left
RECURSIVE FallThrough(_, _, _)
FallThrough(bodies, i, k) ==
    IF i > Len(bodies) THEN [trace |-> << >>, pc |-> "end"]
    ELSE IF k > Len(bodies[i]) THEN FallThrough(bodies, i + 1, 1)
    ELSE IF bodies[i][k] = "break" THEN [trace |-> << >>, pc |-> "end"]
    ELSE IF bodies[i][k] = "return" THEN [trace |-> << >>, pc |-> "returned"]
    ELSE LET rest == FallThrough(bodies, i, k + 1)
         IN  [trace |-> <<i>> \o rest.trace, pc |-> rest.pc]

SwitchOutcome == FallThrough(SourceBodies(sw_node), EntryBody(sw_node, sw_value), 1)

\* C16: with the scrutinee equal to the constant of case i (the first such
\* case), execution runs the bodies of cases i..n in order and then the
\* default body, until a break jumps to the end label; with no matching
\* case it runs only the default body, or nothing; and control always
\* reaches the end label unless a return intervenes.
C16_SwitchFlow ==
    /\ [](sw_pc \in {"end", "returned"}
            => (sw_trace = SwitchOutcome.trace /\ sw_pc = SwitchOutcome.pc))
    /\ <>(sw_pc \in {"end", "returned"})

\* case 1 of two cases matches, its body falls through into case 2 and on
\* into the default body
C16_Witness ==
    /\ sw_pc = "end"
    /\ Len(sw_node.cases) = 2
    /\ sw_node.cases[1] = [val |-> 1, body |-> <<"stmt">>]
    /\ sw_node.cases[2] = [val |-> 2, body |-> <<"stmt">>]
    /\ sw_node.default_body = <<"stmt", "break">>
    /\ sw_value = 1
    /\ sw_trace = <<1, 2, 3>>

(***************************************************************************)
(* Code generator: foreach (gen_stmt, foreach_stmt) over an array<int> a   *)
(* that is a local or a global variable, and the execution of the emitted  *)
(* lines.  The body is one statement that changes neither a's length nor   *)
(* the index: any statement without array calls ("stmt"), an assignment to *)
(* the value variable, or a call b.length() or b.push(..) on another       *)
(* global array b.  A line is named by the instruction(s) it stands for.   *)
(***************************************************************************)
MaxElems == 2        \* elements of a
MaxIters == 4        \* iterations after which an execution is cut off

ElemValues == {5, 6}

BodyStmts == {"stmt", "assign_value", "length_b", "push_b"}

ArrPattern(len, x) == [len |-> len, data |-> [k \in 1..len |-> x]]

FeLabel(kind, n) == <<kind, n>>

\* arr_field(off): the array header is addressed through %rbp or through %r12
ArrBase(node) == IF node.global THEN "r12" ELSE "rbp"

\* gen_stmt / gen_expr on the body statement
GenForeachBody(stmt) ==
    IF stmt = "stmt" THEN << <<"op">> >>
    ELSE IF stmt = "assign_value" THEN << <<"assign_value", 9>> >>
    ELSE IF stmt = "length_b" THEN << <<"lea_r12", "b">>, <<"op">> >>
    ELSE << <<"lea_r12", "b">>, <<"incq_len", "r12">> >>

\* the lines up to the body
ForeachHead(node, n) ==
    (IF node.global THEN << <<"lea_r12", "a">> >> ELSE << >>)
    \o << <<"zero_index">>,
          <<"label", FeLabel(".Lforeach_cond", n)>>,
          <<"load_index">>,
          <<"load_len", ArrBase(node)>>,
          <<"cmp">>,
          <<"jge", FeLabel(".Lforeach_end", n)>>,
          <<"load_ptr", ArrBase(node)>>,
          <<"load_index">>,
          <<"imul">>,
          <<"add_r11">>,
          <<"load_elem">>,
          <<"store_value">> >>

ForeachText(node, n) ==
    ForeachHead(node, n)
    \o GenForeachBody(node.body)
    \o << <<"incq_index">>,
          <<"jmp", FeLabel(".Lforeach_cond", n)>>,
          <<"label", FeLabel(".Lforeach_end", n)>> >>

FeInit ==
    /\ fe_node \in [global : BOOLEAN, body : BodyStmts]
    /\ fe_a0 \in UNION { [1..n -> ElemValues] : n \in 0..MaxElems }
    /\ \E m \in 0..2 : fe_mem = [a |-> [len |-> Len(fe_a0), data |-> fe_a0],
                                 b |-> ArrPattern(m, 7)]
    /\ fe_text = << >>
    /\ fe_body_at = 0
    /\ fe_ip = 1
    /\ fe_reg = [rax |-> 0, rcx |-> 0, r11 |-> [arr |-> "a", off |-> 0], r12 |-> "none",
                 ge |-> FALSE]
    /\ fe_index = 0
    /\ fe_value = 0
    /\ fe_trace = << >>
    /\ fe_pc = "gen"

\* gen_stmt, foreach_stmt
GenForeachStmt ==
    /\ fe_pc = "gen"
    /\ fe_text' = ForeachText(fe_node, 1)
    /\ fe_body_at' = Len(ForeachHead(fe_node, 1)) + 1
    /\ fe_pc' = "run"
    /\ UNCHANGED <<fe_node, fe_a0, fe_mem, fe_ip, fe_reg, fe_index, fe_value, fe_trace>>
    /\ UNCHANGED feOthers

FeLabelIndex(l) == CHOOSE i \in 1..Len(fe_text) : fe_text[i] = <<"label", l>>

\* the array a header is read from: the local a, or what %r12 points to
Based(base) == IF base = "rbp" THEN "a" ELSE fe_reg.r12

\* the processor executes the line at fe_ip
ExecForeachLine ==
    /\ fe_pc = "run"
    /\ LET line == fe_text[fe_ip]
           op == line[1]
           next == IF op = "jmp" \/ (op = "jge" /\ fe_reg.ge) THEN FeLabelIndex(line[2])
                   ELSE fe_ip + 1
           value == IF op = "store_value" THEN fe_reg.rax
                    ELSE IF op = "assign_value" THEN line[2]
                    ELSE fe_value
       IN  /\ fe_reg' =
                 IF op = "lea_r12" THEN [fe_reg EXCEPT !.r12 = line[2]]
                 ELSE IF op = "load_index" THEN [fe_reg EXCEPT !.rax = fe_index]
                 ELSE IF op = "load_len" THEN [fe_reg EXCEPT !.rcx = fe_mem[Based(line[2])].len]
                 ELSE IF op = "cmp" THEN [fe_reg EXCEPT !.ge = fe_reg.rax >= fe_reg.rcx]
                 ELSE IF op = "load_ptr"
                      THEN [fe_reg EXCEPT !.r11 = [arr |-> Based(line[2]), off |-> 0]]
                 ELSE IF op = "add_r11" THEN [fe_reg EXCEPT !.r11.off = @ + fe_reg.rax]
                 ELSE IF op = "load_elem"
                      THEN [fe_reg EXCEPT !.rax = fe_mem[fe_reg.r11.arr].data[fe_reg.r11.off + 1]]
                 ELSE IF op = "assign_value" THEN [fe_reg EXCEPT !.rax = line[2]]
                 ELSE fe_reg
           /\ fe_index' = IF op = "zero_index" THEN 0
                          ELSE IF op = "incq_index" THEN fe_index + 1
                          ELSE fe_index
           /\ fe_value' = value
           /\ fe_mem' = IF op = "incq_len"
                        THEN [fe_mem EXCEPT ![fe_reg.r12] =
                                 ArrPattern(@.len + 1, 7)]
                        ELSE fe_mem
           /\ fe_ip' = next
           /\ IF next = fe_body_at /\ Len(fe_trace) = MaxIters
              THEN fe_pc' = "cut" /\ UNCHANGED fe_trace
              ELSE /\ fe_trace' = IF next = fe_body_at
                                  THEN Append(fe_trace, [i |-> fe_index', v |-> value])
                                  ELSE fe_trace
                   /\ fe_pc' = IF line = <<"label", FeLabel(".Lforeach_end", 1)>>
                               THEN "end" ELSE "run"
    /\ UNCHANGED <<fe_node, fe_a0, fe_text, fe_body_at>>
    /\ UNCHANGED feOthers

FeNext ==
    \/ GenForeachStmt
    \/ ExecForeachLine

FeIdle ==
    /\ fe_node = [global |-> FALSE, body |-> "stmt"]
    /\ fe_a0 = << >>
    /\ fe_mem = [a |-> ArrPattern(0, 7), b |-> ArrPattern(0, 7)]
    /\ fe_text = << >>
    /\ fe_body_at = 0
    /\ fe_ip = 1
    /\ fe_reg = [rax |-> 0, rcx |-> 0, r11 |-> [arr |-> "a", off |-> 0], r12 |-> "none",
                 ge |-> FALSE]
    /\ fe_index = 0
    /\ fe_value = 0
    /\ fe_trace = << >>
    /\ fe_pc = "idle"

\* the iterations the loop is to make: i = 0..n-1 with v = a[i]
Iterations == [k \in 1..Len(fe_a0) |-> [i |-> k - 1, v |-> fe_a0[k]]]

\* C17: the body of foreach (i, v in a) runs exactly n = length(a) times,
\* with i = 0, 1, ..., n-1 in this order and v a copy of a[i] on entry,
\* then control reaches the end label; for n = 0 the body never runs, and
\* assigning to v leaves a unchanged.
C17_ForeachIterates ==
    /\ [](Len(fe_trace) <= Len(fe_a0)
            /\ SubSeq(Iterations, 1, Len(fe_trace)) = fe_trace)
    /\ [](fe_pc = "end" => (fe_trace = Iterations /\ fe_mem.a.data = fe_a0))
    /\ <>(fe_pc \in {"end", "idle"})

(***************************************************************************)
(* Peephole optimizer: the 3-window rewrite of  push A; mov X, B; pop C,   *)
(* and the execution of the lines before and after it from the same        *)
(* register contents.                                                      *)
(***************************************************************************)
Regs == {"%rax", "%rcx", "%rdx"}

Sources == Regs \cup {"$7"}

\* register contents that tell the registers apart
RegsAtStart == [r \in Regs |-> IF r = "%rax" THEN 1 ELSE IF r = "%rcx" THEN 2 ELSE 3]

\* Optimizer.optimize_asm: passes until one changes nothing
RECURSIVE OptimizeAsm(_)
OptimizeAsm(lines) ==
    LET r == PassFrom(lines, 1)
    IN  IF r.changed THEN OptimizeAsm(r.out) ELSE r.out

\* the operand's value: an immediate $n, or a register
Operand(regs, x) == IF x = "$7" THEN 7 ELSE regs[x]

\* the registers and the stack after one push, pop or mov
ExecLine(line, regs, stack) ==
    IF line[1] = "push" THEN [regs |-> regs, stack |-> Append(stack, regs[line[2]])]
    ELSE IF line[1] = "pop"
         THEN [regs |-> [regs EXCEPT ![line[2]] = stack[Len(stack)]],
               stack |-> SubSeq(stack, 1, Len(stack) - 1)]
    ELSE [regs |-> [regs EXCEPT ![line[3]] = Operand(regs, line[2])], stack |-> stack]

PwInit ==
    /\ \E a \in Regs, x \in Sources, b \in Regs, c \in Regs :
          pw_lines = << <<"push", a>>, <<"mov", x, b>>, <<"pop", c>> >>
    /\ pw_out = << >>
    /\ pw_ip = 1
    /\ pw_regs = RegsAtStart
    /\ pw_stack = << >>
    /\ pw_regs2 = RegsAtStart
    /\ pw_stack2 = << >>
    /\ pw_pc = "optimize"

\* optimize_asm(asm_lines)
OptimizeWindow ==
    /\ pw_pc = "optimize"
    /\ pw_out' = OptimizeAsm(pw_lines)
    /\ pw_pc' = "original"
    /\ UNCHANGED <<pw_lines, pw_ip, pw_regs, pw_stack, pw_regs2, pw_stack2>>
    /\ UNCHANGED pwOthers

\* the processor executes the next of the original lines
ExecOriginalLine ==
    /\ pw_pc = "original"
    /\ LET r == ExecLine(pw_lines[pw_ip], pw_regs, pw_stack)
       IN  /\ pw_regs' = r.regs
           /\ pw_stack' = r.stack
    /\ IF pw_ip = Len(pw_lines)
       THEN pw_ip' = 1 /\ pw_pc' = IF pw_out = << >> THEN "done" ELSE "optimized"
       ELSE pw_ip' = pw_ip + 1 /\ UNCHANGED pw_pc
    /\ UNCHANGED <<pw_lines, pw_out, pw_regs2, pw_stack2>>
    /\ UNCHANGED pwOthers

\* the processor executes the next of the returned lines
ExecOptimizedLine ==
    /\ pw_pc = "optimized"
    /\ LET r == ExecLine(pw_out[pw_ip], pw_regs2, pw_stack2)
       IN  /\ pw_regs2' = r.regs
           /\ pw_stack2' = r.stack
    /\ IF pw_ip = Len(pw_out)
       THEN pw_ip' = 1 /\ pw_pc' = "done"
       ELSE pw_ip' = pw_ip + 1 /\ UNCHANGED pw_pc
    /\ UNCHANGED <<pw_lines, pw_out, pw_regs, pw_stack>>
    /\ UNCHANGED pwOthers

PwNext ==
    \/ OptimizeWindow
    \/ ExecOriginalLine
    \/ ExecOptimizedLine

PwIdle ==
    /\ pw_lines = << >>
    /\ pw_out = << >>
    /\ pw_ip = 1
    /\ pw_regs = RegsAtStart
    /\ pw_stack = << >>
    /\ pw_regs2 = RegsAtStart
    /\ pw_stack2 = << >>
    /\ pw_pc = "idle"

\* C18: whenever optimize_asm rewrites push A; mov X, B; pop C, the
\* registers other than the stack pointer end with the same values after
\* the rewritten lines as after the original three, for all registers
\* A, B, C and every source X, X = C and X = A included.
C18_Window3Sound ==
    (pw_pc = "done" /\ pw_out # pw_lines) => pw_regs2 = pw_regs

(***************************************************************************)
(* Code generator: a call with integer, float, struct-variable and inline  *)
(* initializer-list arguments, the parameter binding of the called         *)
(* function, and their execution.                                          *)
(***************************************************************************)
MaxArgs == 3

MaxWords == 3

WordValues == {1, 2}

int_regs == <<"%rdi", "%rsi", "%rdx", "%rcx", "%r8", "%r9">>

float_regs == <<"%xmm0", "%xmm1", "%xmm2", "%xmm3", "%xmm4", "%xmm5">>

CallRegs ==
    {int_regs[i] : i \in 1..Len(int_regs)} \cup {float_regs[i] : i \in 1..Len(float_regs)}
        \cup {"%rax", "%r11"}

\* the values a register or a stack slot holds
Word(v) == [kind |-> "word", v |-> v]

StructAddr == [kind |-> "addr", v |-> 0]

Leftover(v) == [kind |-> "leftover", v |-> v]

\* sizeof of the struct: its fields are 8-byte integers
StSize == 8 * Len(ca_struct)

IntType == [name |-> "int", ptr |-> FALSE]

FloatType == [name |-> "float", ptr |-> FALSE]

\* gen_expr on an id of struct type: the address in %rax, the type is ty + '*'
GenExprStructId == [name |-> "S", ptr |-> TRUE]

\* the same without the '*': the type the struct branch of the call tests for
GenExprStructIdPlain == [name |-> "S", ptr |-> FALSE]

InStructs(ty) == ty.name = "S" /\ ~ty.ptr

\* gen_expr(arg) and the returned type
\* for an init_list the type is param_ty, taken from the signature
ArgType(kind) ==
    IF kind = "int" THEN IntType
    ELSE IF kind = "float" THEN FloatType
    ELSE IF kind = "init" THEN GenExprStructIdPlain
    ELSE GenExprStructId

\* the argument loop body for an init_list whose parameter is a struct: a
\* temporary struct on the stack, filled field by field, then its words or
\* its address pushed
GenInitListArg(i) ==
    << <<"sub_rsp", i, Len(ca_struct)>> >>
    \o [j \in 1..(2 * Len(ca_struct)) |->
           IF j % 2 = 1 THEN <<"eval_field", (j + 1) \div 2, "%rax">>
           ELSE <<"store_rsp", "%rax", (j \div 2) - 1>>]
    \o (IF StSize <= 16
        THEN << <<"mov_rsp", "%r11">>, <<"load", 0, "%r11", "%rax">>, <<"push", "%rax">> >>
             \o (IF StSize > 8
                 THEN << <<"load", 1, "%r11", "%rax">>, <<"push", "%rax">> >>
                 ELSE << >>)
        ELSE << <<"mov_rsp", "%rax">>, <<"push", "%rax">> >>)

\* the argument loop body for one argument
GenArg(args, i) ==
    IF args[i] = "int"
    THEN << <<"eval", i, "%rax">>, <<"push", "%rax">> >>
    ELSE IF args[i] = "float"
    THEN << <<"eval", i, "%xmm0">>, <<"push", "%xmm0">> >>
    ELSE IF args[i] = "init"
    THEN GenInitListArg(i)
    ELSE << <<"lea_var", i>> >>
         \o (IF InStructs(ArgType(args[i])) /\ StSize <= 16
             THEN << <<"load", 0, "%rax", "%rcx">>, <<"push", "%rcx">> >>
                  \o (IF StSize > 8
                      THEN << <<"load", 1, "%rax", "%rcx">>, <<"push", "%rcx">> >>
                      ELSE << >>)
             ELSE << <<"push", "%rax">> >>)

\* the loop taken over reversed(args)
RECURSIVE GenArgsReversed(_, _)
GenArgsReversed(args, i) ==
    IF i > Len(args) THEN << >> ELSE GenArgsReversed(args, i + 1) \o GenArg(args, i)

\* for arg in args
RECURSIVE GenArgs(_, _)
GenArgs(args, i) ==
    IF i > Len(args) THEN << >> ELSE GenArg(args, i) \o GenArgs(args, i + 1)

\* the integer registers one argument takes
IntSlots(ty) ==
    IF ty = FloatType THEN 0
    ELSE IF InStructs(ty) THEN (IF StSize <= 16 THEN (IF StSize > 8 THEN 2 ELSE 1) ELSE 1)
    ELSE 1

FloatSlots(ty) == IF ty = FloatType THEN 1 ELSE 0

\* int_slots and float_slots of the arguments 1..i
RECURSIVE SumIntSlots(_, _)
SumIntSlots(args, i) ==
    IF i = 0 THEN 0 ELSE IntSlots(ArgType(args[i])) + SumIntSlots(args, i - 1)

RECURSIVE SumFloatSlots(_, _)
SumFloatSlots(args, i) ==
    IF i = 0 THEN 0 ELSE FloatSlots(ArgType(args[i])) + SumFloatSlots(args, i - 1)

\* for ty in reversed(arg_types): pop into int_regs[int_idx] or
\* float_regs[float_idx], counting down
RECURSIVE GenPops(_, _, _, _)
GenPops(args, i, int_idx, float_idx) ==
    IF i = 0 THEN << >>
    ELSE IF ArgType(args[i]) = FloatType
         THEN << <<"pop", float_regs[float_idx + 1]>> >>
              \o GenPops(args, i - 1, int_idx, float_idx - 1)
    ELSE IF IntSlots(ArgType(args[i])) = 2
         THEN << <<"pop", int_regs[int_idx + 1]>>, <<"pop", int_regs[int_idx]>> >>
              \o GenPops(args, i - 1, int_idx - 2, float_idx)
    ELSE << <<"pop", int_regs[int_idx + 1]>> >>
         \o GenPops(args, i - 1, int_idx - 1, float_idx)

\* gen_expr on a call node
GenCallText(args) ==
    GenArgs(args, 1)
        \o GenPops(args, Len(args), SumIntSlots(args, Len(args)) - 1,
                    SumFloatSlots(args, Len(args)) - 1)
        \o << <<"call">> >>

\* gen_func: the binding of the parameters from p on, int_idx registers used
RECURSIVE GenParams(_, _, _, _)
GenParams(params, p, int_idx, float_idx) ==
    IF p > Len(params) THEN << >>
    ELSE IF params[p] = "int"
         THEN << <<"store", int_regs[int_idx + 1], p, 1>> >>
              \o GenParams(params, p + 1, int_idx + 1, float_idx)
    ELSE IF params[p] = "float"
         THEN << <<"store", float_regs[float_idx + 1], p, 1>> >>
              \o GenParams(params, p + 1, int_idx, float_idx + 1)
    ELSE IF StSize <= 16
         THEN << <<"store", int_regs[int_idx + 1], p, 1>> >>
              \o (IF StSize > 8 THEN << <<"store", int_regs[int_idx + 2], p, 2>> >> ELSE << >>)
              \o GenParams(params, p + 1, int_idx + (IF StSize > 8 THEN 2 ELSE 1), float_idx)
    ELSE << <<"mov", int_regs[int_idx + 1], "%r11">> >>
         \o [j \in 1..(2 * Len(ca_struct)) |->
                IF j % 2 = 1 THEN <<"load", (j - 1) \div 2, "%r11", "%rax">>
                ELSE <<"store", "%rax", p, j \div 2>>]
         \o GenParams(params, p + 1, int_idx + 1, float_idx)

ArgLists ==
    {args \in UNION {[1..n -> {"int", "float", "struct", "init"}] : n \in 1..MaxArgs} :
        Cardinality({i \in DOMAIN args : args[i] \in {"struct", "init"}}) <= 1}

CaInit ==
    /\ ca_args \in ArgLists
    /\ ca_struct \in UNION {[1..n -> WordValues] : n \in 1..MaxWords}
    /\ (\A i \in DOMAIN ca_args : ca_args[i] \notin {"struct", "init"})
          => ca_struct = [k \in 1..1 |-> 1]
    /\ ca_text = << >>
    /\ ca_ip = 1
    /\ \E v \in WordValues : ca_regs = [r \in CallRegs |-> Leftover(v)]
    /\ ca_stack = << >>
    /\ ca_order = << >>
    /\ ca_locals = << >>
    /\ ca_pc = "gen_call"

\* gen_expr(('call', f, args))
GenCall ==
    /\ ca_pc = "gen_call"
    /\ ca_text' = GenCallText(ca_args)
    /\ ca_pc' = "gen_func"
    /\ UNCHANGED <<ca_args, ca_struct, ca_ip, ca_regs, ca_stack, ca_order, ca_locals>>
    /\ UNCHANGED caOthers

\* gen_func of f: a slot for every parameter, and the lines that fill it
GenFuncParams ==
    /\ ca_pc = "gen_func"
    /\ ca_text' = ca_text \o GenParams(ca_args, 1, 0, 0)
    /\ ca_locals' = [p \in 1..Len(ca_args) |->
                        [k \in 1..(IF ca_args[p] \in {"struct", "init"} THEN Len(ca_struct) ELSE 1) |->
                            ca_regs["%rax"]]]
    /\ ca_pc' = "exec"
    /\ UNCHANGED <<ca_args, ca_struct, ca_ip, ca_regs, ca_stack, ca_order>>
    /\ UNCHANGED caOthers

\* the word at offset 8 * k from the address in a register: a word of the
\* struct variable, or a stack slot (the stack grows downwards)
Deref(val, k) ==
    IF val.kind = "addr" /\ k < Len(ca_struct) THEN Word(ca_struct[k + 1])
    ELSE IF val.kind = "stack" /\ val.v - k \in 1..Len(ca_stack) THEN ca_stack[val.v - k]
    ELSE Leftover(0)

\* the processor executes the next line
ExecCallLine ==
    /\ ca_pc = "exec"
    /\ LET line == ca_text[ca_ip]
           op == line[1]
       IN  /\ ca_regs' =
                  IF op = "eval" THEN [ca_regs EXCEPT ![line[3]] = Word(line[2])]
                  ELSE IF op = "eval_field"
                       THEN [ca_regs EXCEPT ![line[3]] = Word(ca_struct[line[2]])]
                  ELSE IF op = "mov_rsp"
                       THEN [ca_regs EXCEPT ![line[2]] = [kind |-> "stack", v |-> Len(ca_stack)]]
                  ELSE IF op = "lea_var" THEN [ca_regs EXCEPT !["%rax"] = StructAddr]
                  ELSE IF op = "pop" THEN [ca_regs EXCEPT ![line[2]] = ca_stack[Len(ca_stack)]]
                  ELSE IF op = "mov" THEN [ca_regs EXCEPT ![line[3]] = ca_regs[line[2]]]
                  ELSE IF op = "load"
                       THEN [ca_regs EXCEPT ![line[4]] = Deref(ca_regs[line[3]], line[2])]
                  ELSE ca_regs
           /\ ca_stack' =
                  IF op = "push" THEN Append(ca_stack, ca_regs[line[2]])
                  ELSE IF op = "pop" THEN SubSeq(ca_stack, 1, Len(ca_stack) - 1)
                  ELSE IF op = "sub_rsp"
                       THEN ca_stack \o [k \in 1..line[3] |-> ca_regs["%r11"]]
                  ELSE IF op = "store_rsp"
                       THEN [ca_stack EXCEPT ![Len(ca_stack) - line[3]] = ca_regs[line[2]]]
                  ELSE ca_stack
           /\ ca_order' = IF op \in {"eval", "lea_var", "sub_rsp"} THEN Append(ca_order, line[2])
                          ELSE ca_order
           /\ ca_locals' =
                  IF op = "store"
                  THEN [ca_locals EXCEPT ![line[3]][line[4]] = ca_regs[line[2]]]
                  ELSE ca_locals
    /\ IF ca_ip = Len(ca_text)
       THEN ca_pc' = "done" /\ UNCHANGED ca_ip
       ELSE ca_ip' = ca_ip + 1 /\ UNCHANGED ca_pc
    /\ UNCHANGED <<ca_args, ca_struct, ca_text>>
    /\ UNCHANGED caOthers

CaNext ==
    \/ GenCall
    \/ GenFuncParams
    \/ ExecCallLine

CaIdle ==
    /\ ca_args = << >>
    /\ ca_struct = << >>
    /\ ca_text = << >>
    /\ ca_ip = 1
    /\ ca_regs = [r \in CallRegs |-> Leftover(1)]
    /\ ca_stack = << >>
    /\ ca_order = << >>
    /\ ca_locals = << >>
    /\ ca_pc = "idle"

\* the position of the struct or init_list argument, 0 when there is none
StructPos ==
    IF \E i \in DOMAIN ca_args : ca_args[i] \in {"struct", "init"}
    THEN CHOOSE i \in DOMAIN ca_args : ca_args[i] \in {"struct", "init"}
    ELSE 0

\* the index of the first integer register of the struct argument
StructReg == SumIntSlots(ca_args, StructPos - 1) + 1

\* the call instruction is about to execute: the argument registers are set
AtCall == ca_pc = "exec" /\ ca_text[ca_ip][1] = "call"

StructWords == [k \in 1..Len(ca_struct) |-> Word(ca_struct[k])]

\* C19: for a struct parameter of at most 16 bytes called with a struct
\* variable, the argument registers hold the struct's first and second 8
\* bytes at the call; for a larger struct the register holds its address;
\* in both cases the callee's copy of the parameter equals the caller's
\* struct.
C19_StructArg ==
    (StructPos # 0 /\ ca_args[StructPos] = "struct") =>
        /\ AtCall =>
              IF StSize <= 16
              THEN \A k \in 1..Len(ca_struct) :
                      ca_regs[int_regs[StructReg + k - 1]] = Word(ca_struct[k])
              ELSE ca_regs[int_regs[StructReg]] = StructAddr
        /\ ca_pc = "done" => ca_locals[StructPos] = StructWords

\* the register of the i-th argument: the next one of its class
ArgReg(i) ==
    IF ca_args[i] = "float" THEN float_regs[SumFloatSlots(ca_args, i)]
    ELSE int_regs[SumIntSlots(ca_args, i)]

\* a call of at least two integer or float arguments
ScalarCall == Len(ca_args) >= 2 /\ StructPos = 0

\* every value is pushed as it is computed, no value is popped before the
\* last argument was evaluated, and at the call a_i is in its register
PushedThenPopped ==
    /\ (ca_pc = "exec" /\ ca_text[ca_ip][1] = "eval") => Len(ca_stack) = Len(ca_order)
    /\ (ca_pc = "exec" /\ ca_text[ca_ip][1] = "pop") => Len(ca_order) = Len(ca_args)
    /\ AtCall => \A i \in DOMAIN ca_args : ca_regs[ArgReg(i)] = Word(i)

InitListCall ==
    /\ StructPos # 0
    /\ ca_args[StructPos] = "init"
    /\ StSize <= 16
    /\ \A i \in DOMAIN ca_args \ {StructPos} : ca_args[i] = "int"

\* C26: for a call that mixes integer arguments and an inline initializer
\* list for a struct parameter of at most 16 bytes, after the pops every
\* integer argument's value is in the integer register of its position and
\* the struct's words are in the registers of its position; the temporary
\* struct on the stack is not popped into an argument register.
C26_InitListArgs ==
    (InitListCall /\ AtCall) =>
        /\ \A i \in DOMAIN ca_args \ {StructPos} :
              ca_regs[int_regs[SumIntSlots(ca_args, i)]] = Word(i)
        /\ \A k \in 1..Len(ca_struct) :
              ca_regs[int_regs[StructReg + k - 1]] = Word(ca_struct[k])

(***************************************************************************)
(* Semantic analyzer: the pre-pass over the top-level struct, function and *)
(* type-alias declarations.                                                *)
(***************************************************************************)
MaxTopDecls == 3

TopTags == {"func", "struct_decl", "type_decl"}

TopNames == {"n", "m"}

DdInit ==
    /\ dd_ast \in UNION {[1..k -> [tag : TopTags, name : TopNames]] : k \in 1..MaxTopDecls}
    /\ dd_i = 0
    /\ dd_functions = << >>
    /\ dd_structs = << >>
    /\ dd_types = << >>
    /\ dd_errors = << >>
    /\ dd_pc = "scan"

\* the table with name set to the node at index i
SetEntry(table, name, i) ==
    [n \in DOMAIN table \cup {name} |-> IF n = name THEN i ELSE table[n]]

\* _scan_declarations: one iteration of the loop over the nodes
ScanDeclaration ==
    /\ dd_pc = "scan"
    /\ dd_i < Len(dd_ast)
    /\ LET i == dd_i + 1
           node == dd_ast[i]
       IN  /\ dd_i' = i
           /\ IF node.tag = "func"
              THEN /\ dd_errors' = IF node.name \in DOMAIN dd_functions
                                   THEN Append(dd_errors, [code |-> "E010", name |-> node.name, loc |-> i])
                                   ELSE dd_errors
                   /\ dd_functions' = SetEntry(dd_functions, node.name, i)
                   /\ UNCHANGED <<dd_structs, dd_types>>
              ELSE IF node.tag = "struct_decl"
              THEN /\ dd_structs' = SetEntry(dd_structs, node.name, i)
                   /\ UNCHANGED <<dd_functions, dd_types, dd_errors>>
              ELSE /\ dd_errors' = IF node.name \in DOMAIN dd_types
                                   THEN Append(dd_errors, [code |-> "E015", name |-> node.name, loc |-> i])
                                   ELSE dd_errors
                   /\ dd_types' = SetEntry(dd_types, node.name, i)
                   /\ UNCHANGED <<dd_functions, dd_structs>>
    /\ UNCHANGED <<dd_ast, dd_pc>>
    /\ UNCHANGED ddOthers

\* analyze, after the scan: the nodes themselves raise nothing here
ScanFinished ==
    /\ dd_pc = "scan"
    /\ dd_i = Len(dd_ast)
    /\ dd_pc' = "report"
    /\ UNCHANGED <<dd_ast, dd_i, dd_functions, dd_structs, dd_types, dd_errors>>
    /\ UNCHANGED ddOthers

\* analyze: if self.errors: sys.exit(1)
ScanReport ==
    /\ dd_pc = "report"
    /\ dd_pc' = IF dd_errors # << >> THEN "exited" ELSE "returned"
    /\ UNCHANGED <<dd_ast, dd_i, dd_functions, dd_structs, dd_types, dd_errors>>
    /\ UNCHANGED ddOthers

DdNext ==
    \/ ScanDeclaration
    \/ ScanFinished
    \/ ScanReport

DdIdle ==
    /\ dd_ast = << >>
    /\ dd_i = 0
    /\ dd_functions = << >>
    /\ dd_structs = << >>
    /\ dd_types = << >>
    /\ dd_errors = << >>
    /\ dd_pc = "idle"

\* the node at j repeats the tag and name of an earlier node
Redeclares(j) ==
    \E i \in 1..(j - 1) : dd_ast[i].tag = dd_ast[j].tag /\ dd_ast[i].name = dd_ast[j].name

\* C21: when two struct declarations, two function definitions or two
\* type-alias declarations have the same name, the pre-pass records a
\* redeclaration error at the second and the analysis exits; no compilation
\* with such a pair returns from the analysis.
C21_DuplicateDecls ==
    /\ \A j \in 1..dd_i :
          Redeclares(j) => \E e \in 1..Len(dd_errors) :
                              dd_errors[e].loc = j /\ dd_errors[e].name = dd_ast[j].name
    /\ dd_pc = "returned" => \A j \in 1..Len(dd_ast) : ~Redeclares(j)

(***************************************************************************)
(* Lexer: the token kinds of words, and the parser's dispatch on the first *)
(* token's kind.                                                           *)
(***************************************************************************)
MaxWordsInText == 2

\* token_specification, the word patterns 'kw\b' in their order
KeywordSpec ==
    << [kind |-> "INCLUDE", word |-> <<"i", "n", "c", "l", "u", "d", "e">>],
       [kind |-> "VOID", word |-> <<"v", "o", "i", "d">>],
       [kind |-> "RETURN", word |-> <<"r", "e", "t", "u", "r", "n">>],
       [kind |-> "IF", word |-> <<"i", "f">>],
       [kind |-> "ELSE", word |-> <<"e", "l", "s", "e">>],
       [kind |-> "WHILE", word |-> <<"w", "h", "i", "l", "e">>],
       [kind |-> "FOR", word |-> <<"f", "o", "r">>],
       [kind |-> "DO", word |-> <<"d", "o">>],
       [kind |-> "STRUCT", word |-> <<"s", "t", "r", "u", "c", "t">>],
       [kind |-> "ENUM", word |-> <<"e", "n", "u", "m">>],
       [kind |-> "LET", word |-> <<"l", "e", "t">>],
       [kind |-> "SIGNED", word |-> <<"s", "i", "g", "n", "e", "d">>],
       [kind |-> "UNSIGNED", word |-> <<"u", "n", "s", "i", "g", "n", "e", "d">>] >>

\* the keyword kinds of the language, by their words
KeywordKinds ==
    { [kind |-> "INCLUDE", word |-> <<"i", "n", "c", "l", "u", "d", "e">>],
     [kind |-> "VOID", word |-> <<"v", "o", "i", "d">>],
     [kind |-> "RETURN", word |-> <<"r", "e", "t", "u", "r", "n">>],
     [kind |-> "IF", word |-> <<"i", "f">>],
     [kind |-> "ELSE", word |-> <<"e", "l", "s", "e">>],
     [kind |-> "WHILE", word |-> <<"w", "h", "i", "l", "e">>],
     [kind |-> "FOR", word |-> <<"f", "o", "r">>],
     [kind |-> "FOREACH", word |-> <<"f", "o", "r", "e", "a", "c", "h">>],
     [kind |-> "DO", word |-> <<"d", "o">>],
     [kind |-> "SWITCH", word |-> <<"s", "w", "i", "t", "c", "h">>],
     [kind |-> "CASE", word |-> <<"c", "a", "s", "e">>],
     [kind |-> "DEFAULT", word |-> <<"d", "e", "f", "a", "u", "l", "t">>],
     [kind |-> "BREAK", word |-> <<"b", "r", "e", "a", "k">>],
     [kind |-> "STRUCT", word |-> <<"s", "t", "r", "u", "c", "t">>],
     [kind |-> "ENUM", word |-> <<"e", "n", "u", "m">>],
     [kind |-> "TYPE", word |-> <<"t", "y", "p", "e">>],
     [kind |-> "LET", word |-> <<"l", "e", "t">>],
     [kind |-> "MACRO", word |-> <<"m", "a", "c", "r", "o">>],
     [kind |-> "SIGNED", word |-> <<"s", "i", "g", "n", "e", "d">>],
     [kind |-> "UNSIGNED", word |-> <<"u", "n", "s", "i", "g", "n", "e", "d">>],
     [kind |-> "CONST", word |-> <<"c", "o", "n", "s", "t">>],
     [kind |-> "FNCT", word |-> <<"f", "n", "c", "t">>],
     [kind |-> "IN", word |-> <<"i", "n">>] }

\* identifiers, some with a keyword as prefix
Identifiers ==
    { <<"x">>,
     <<"i", "f", "f", "y">>,
     <<"i", "n", "t">>,
     <<"d", "o", "t">>,
     <<"f", "o", "r", "m">> }

LexWords == {k.word : k \in KeywordKinds} \cup Identifiers

WordChars == UNION {{w[i] : i \in 1..Len(w)} : w \in LexWords}

\* the words joined by one blank
RECURSIVE JoinWords(_)
JoinWords(ws) ==
    IF Len(ws) = 1 THEN ws[1] ELSE ws[1] \o <<" ">> \o JoinWords(Tail(ws))

\* 'kw\b' at pos: the letters of kw, then no word character
MatchesKeyword(text, pos, kw) ==
    /\ pos + Len(kw) - 1 <= Len(text)
    /\ SubSeq(text, pos, pos + Len(kw) - 1) = kw
    /\ pos + Len(kw) <= Len(text) => text[pos + Len(kw)] \notin WordChars

\* the length of the longest run of c-characters from pos
RECURSIVE RunLength(_, _, _)
RunLength(text, pos, cs) ==
    IF pos <= Len(text) /\ text[pos] \in cs THEN 1 + RunLength(text, pos + 1, cs) ELSE 0

\* the first alternative of tok_regex that matches at pos: [kind, len]
FirstMatch(text, pos) ==
    IF \E k \in 1..Len(KeywordSpec) : MatchesKeyword(text, pos, KeywordSpec[k].word)
    THEN LET k == CHOOSE k \in 1..Len(KeywordSpec) :
                     /\ MatchesKeyword(text, pos, KeywordSpec[k].word)
                     /\ \A j \in 1..(k - 1) : ~MatchesKeyword(text, pos, KeywordSpec[j].word)
         IN  [kind |-> KeywordSpec[k].kind, len |-> Len(KeywordSpec[k].word)]
    ELSE IF text[pos] \in WordChars
    THEN [kind |-> "ID", len |-> RunLength(text, pos, WordChars)]
    ELSE [kind |-> "SKIP", len |-> RunLength(text, pos, {" "})]

LxInit ==
    /\ \E ws \in UNION {[1..n -> LexWords] : n \in 1..MaxWordsInText} : lx_code = JoinWords(ws)
    /\ lx_pos = 1
    /\ lx_tokens = << >>
    /\ lx_handler = ""
    /\ lx_pc = "lex"

\* lex: one match of re.finditer
LexMatch ==
    /\ lx_pc = "lex"
    /\ lx_pos <= Len(lx_code)
    /\ LET m == FirstMatch(lx_code, lx_pos)
       IN  /\ lx_pos' = lx_pos + m.len
           /\ lx_tokens' = IF m.kind = "SKIP" THEN lx_tokens
                           ELSE Append(lx_tokens,
                                       [type |-> m.kind,
                                        value |-> SubSeq(lx_code, lx_pos, lx_pos + m.len - 1)])
    /\ UNCHANGED <<lx_code, lx_handler, lx_pc>>
    /\ UNCHANGED lxOthers

\* lex: the EOF token after the last match
LexEOF ==
    /\ lx_pc = "lex"
    /\ lx_pos > Len(lx_code)
    /\ lx_tokens' = Append(lx_tokens, [type |-> "EOF", value |-> << >>])
    /\ lx_pc' = "parse"
    /\ UNCHANGED <<lx_code, lx_pos, lx_handler>>
    /\ UNCHANGED lxOthers

\* parse_program: the branch taken on the first token
ParseProgramDispatch ==
    /\ lx_pc = "parse"
    /\ LET ty == lx_tokens[1].type
       IN  lx_handler' =
               IF ty = "INCLUDE" THEN "parse_include"
               ELSE IF ty = "STRUCT" THEN "parse_struct_decl"
               ELSE IF ty = "ENUM" THEN "parse_enum_decl"
               ELSE IF ty = "TYPE" THEN "parse_type_decl"
               ELSE IF ty = "LET" THEN "parse_let_decl"
               ELSE IF ty = "MACRO" THEN "parse_macro"
               ELSE "parse_decl"
    /\ lx_pc' = "done"
    /\ UNCHANGED <<lx_code, lx_pos, lx_tokens>>
    /\ UNCHANGED lxOthers

\* parse_stmt: the branch taken on the first token
ParseStmtDispatch ==
    /\ lx_pc = "parse"
    /\ LET ty == lx_tokens[1].type
       IN  lx_handler' =
               IF ty = "IF" THEN "parse_if_stmt"
               ELSE IF ty = "SWITCH" THEN "parse_switch_stmt"
               ELSE IF ty = "WHILE" THEN "parse_while_stmt"
               ELSE IF ty = "FOR" THEN "parse_for_stmt"
               ELSE IF ty = "FOREACH" THEN "parse_foreach_stmt"
               ELSE IF ty = "DO" THEN "parse_do_while_stmt"
               ELSE IF ty = "BREAK" THEN "parse_break_stmt"
               ELSE "declaration or expression"
    /\ lx_pc' = "done"
    /\ UNCHANGED <<lx_code, lx_pos, lx_tokens>>
    /\ UNCHANGED lxOthers

LxNext ==
    \/ LexMatch
    \/ LexEOF
    \/ ParseProgramDispatch
    \/ ParseStmtDispatch

LxIdle ==
    /\ lx_code = << >>
    /\ lx_pos = 1
    /\ lx_tokens = << >>
    /\ lx_handler = ""
    /\ lx_pc = "idle"

\* C22: every keyword of the language gets its own token kind, never ID,
\* so that a statement starting with switch, break or foreach and a
\* declaration starting with type or macro reach the parser branch of that
\* kind instead of the branch for declarations and expressions.
C22_KeywordTokens ==
    /\ \A t \in 1..Len(lx_tokens) : \A k \in KeywordKinds :
          lx_tokens[t].value = k.word => lx_tokens[t].type = k.kind
    /\ lx_pc = "done" =>
          \A k \in KeywordKinds :
              lx_tokens[1].value = k.word =>
                  /\ k.kind \in {"SWITCH", "BREAK", "FOREACH"}
                        => lx_handler # "declaration or expression"
                  /\ k.kind \in {"TYPE", "MACRO"} => lx_handler # "parse_decl"

(***************************************************************************)
(* Driver: macro expansion over the program, and the code generated for    *)
(* the statements of main after it.                                        *)
(***************************************************************************)
MaxBody == 2

MaxMainStmts == 2

\* ('call', ('id', target), [arg])
Call(target, arg) == [tag |-> "call", target |-> target, arg |-> arg, items |-> << >>]

\* a Python list of statements where an expression is expected
StmtList(items) == [tag |-> "list", target |-> "", arg |-> "", items |-> items]

ExprStmt(e) == [tag |-> "expr_stmt", expr |-> e]

\* macro m(a) { ... }: calls of g or of the macro inner, on a or on a literal
BodyStmts2 == {ExprStmt(Call(t, x)) : t \in {"g", "inner"}, x \in {"a", "1"}}

MacroBodies == UNION {[1..n -> BodyStmts2] : n \in 1..MaxBody}

\* macro inner(a) { g(a); }
InnerBody == << ExprStmt(Call("g", "a")) >>

MainStmts == {ExprStmt(Call(t, x)) : t \in {"m", "g"}, x \in {"5", "7"}}

\* _substitute_params on an id: the argument for the parameter a
SubstituteId(x, actual) == IF x = "a" THEN actual ELSE x

\* _substitute_params(body, param_map, loc)
SubstituteParams(body, actual) ==
    [k \in 1..Len(body) |->
        ExprStmt(Call(body[k].expr.target, SubstituteId(body[k].expr.arg, actual)))]

\* _expand_macros on an expression
RECURSIVE ExpandMacroCall(_, _)
ExpandMacroCall(e, macros) ==
    IF e.tag = "call" /\ e.target \in DOMAIN macros
    THEN LET expanded_body == SubstituteParams(macros[e.target], e.arg)
         IN  IF Len(expanded_body) = 1 /\ expanded_body[1].tag = "expr_stmt"
             THEN ExpandMacroCall(expanded_body[1].expr, macros)
             ELSE StmtList([k \in 1..Len(expanded_body) |->
                               ExprStmt(ExpandMacroCall(expanded_body[k].expr, macros))])
    ELSE e

\* _expand_macros on a list of statements
ExpandBody(body, macros) ==
    [k \in 1..Len(body) |-> ExprStmt(ExpandMacroCall(body[k].expr, macros))]

McInit ==
    /\ \E body \in MacroBodies, main \in UNION {[1..n -> MainStmts] : n \in 1..MaxMainStmts} :
          mc_ast = [macros |-> [n \in {"m", "inner"} |-> IF n = "m" THEN body ELSE InnerBody],
                    main |-> main]
    /\ mc_final = [macros |-> << >>, main |-> << >>]
    /\ mc_i = 0
    /\ mc_text = << >>
    /\ mc_pc = "expand"

\* compile_file: _collect_macros, _expand_macros, removal of the macro nodes
CollectAndExpand ==
    /\ mc_pc = "expand"
    /\ LET macros == mc_ast.macros
           expanded == [macros |-> [n \in DOMAIN macros |-> ExpandBody(macros[n], macros)],
                        main |-> ExpandBody(mc_ast.main, macros)]
       IN  mc_final' = [macros |-> << >>, main |-> expanded.main]
    /\ mc_pc' = "gen"
    /\ UNCHANGED <<mc_ast, mc_i, mc_text>>
    /\ UNCHANGED mcOthers

\* gen_stmt on the next statement of main: gen_expr(node[1]); gen_expr
\* emits a call for a call node and has no branch for a list
GenMainStmt ==
    /\ mc_pc = "gen"
    /\ mc_i < Len(mc_final.main)
    /\ LET e == mc_final.main[mc_i + 1].expr
       IN  mc_text' = IF e.tag = "call"
                      THEN Append(mc_text, [target |-> e.target, arg |-> e.arg])
                      ELSE mc_text
    /\ mc_i' = mc_i + 1
    /\ UNCHANGED <<mc_ast, mc_final, mc_pc>>
    /\ UNCHANGED mcOthers

\* gen_func: the body is finished
GenMainEnd ==
    /\ mc_pc = "gen"
    /\ mc_i = Len(mc_final.main)
    /\ mc_pc' = "done"
    /\ UNCHANGED <<mc_ast, mc_final, mc_i, mc_text>>
    /\ UNCHANGED mcOthers

McNext ==
    \/ CollectAndExpand
    \/ GenMainStmt
    \/ GenMainEnd

McIdle ==
    /\ mc_ast = [macros |-> << >>, main |-> << >>]
    /\ mc_final = [macros |-> << >>, main |-> << >>]
    /\ mc_i = 0
    /\ mc_text = << >>
    /\ mc_pc = "idle"

\* the calls a statement of the source stands for, macros written out
RECURSIVE CallsOf(_, _)
CallsOf(e, depth) ==
    IF e.target \in {"m", "inner"} /\ depth > 0
    THEN LET body == SubstituteParams(mc_ast.macros[e.target], e.arg)
             RECURSIVE Cat(_)
             Cat(k) == IF k > Len(body) THEN << >>
                       ELSE CallsOf(body[k].expr, depth - 1) \o Cat(k + 1)
         IN  Cat(1)
    ELSE << [target |-> e.target, arg |-> e.arg] >>

RECURSIVE MainCalls(_)
MainCalls(k) ==
    IF k > Len(mc_ast.main) THEN << >>
    ELSE CallsOf(mc_ast.main[k].expr, 2) \o MainCalls(k + 1)

\* the call targets left in an expression of the final tree
RECURSIVE TargetsOf(_)
TargetsOf(e) ==
    IF e.tag = "call" THEN {e.target}
    ELSE UNION {TargetsOf(e.items[k].expr) : k \in 1..Len(e.items)}

\* C23: a macro call whose substituted body is a single expr_stmt is
\* replaced by that statement's expression; for any other body the call
\* site takes the whole ordered list of substituted statements and code is
\* generated for every one of them, none dropped; after expansion no macro
\* definition and no call of a macro name remains in the tree.
C23_MacroExpansion ==
    /\ mc_pc \in {"gen", "done"} =>
          /\ DOMAIN mc_final.macros = {}
          /\ \A k \in 1..Len(mc_final.main) :
                TargetsOf(mc_final.main[k].expr) \cap {"m", "inner"} = {}
    /\ mc_pc = "done" => mc_text = MainCalls(1)

(***************************************************************************)
(* Driver: main from the compilation to the exit of the process, with the  *)
(* files it writes and removes.                                            *)
(***************************************************************************)
MaxReturnCode == 2

NotExited == MaxReturnCode + 1

s_file == "BASE.tmp.s"

o_file == "BASE.tmp.o"

\* final_out and out_s
FinalOut(args) ==
    IF args.output THEN "OUT"
    ELSE IF args.S THEN "BASE.s"
    ELSE IF args.lib THEN "BASE.o"
    ELSE "BASE"

\* os.remove of the files that exist
Remove(disk, files) == disk \ files

\* the clean-up of the branch taken when the linker fails, without the
\* removal of the object file
LinkFailedCleanupKeepsObject(disk) == Remove(disk, {s_file})

\* the clean-up of the branch taken when the linker fails
LinkFailedCleanup(disk) == Remove(disk, {s_file, o_file})

\* subprocess.run(["gcc", ..., "-o", out]): gcc leaves out on success and
\* removes it when it fails
GccRun(disk, out, returncode) ==
    IF returncode = 0 THEN disk \cup {out} ELSE disk \ {out}

DrInit ==
    /\ dr_args \in [S : BOOLEAN, lib : BOOLEAN, output : BOOLEAN]
    /\ dr_disk \in SUBSET {"BASE", "BASE.o", "BASE.s", "OUT"}
    /\ dr_start = dr_disk
    /\ dr_tmp = FALSE
    /\ dr_res = 0
    /\ dr_failed = FALSE
    /\ dr_exit = NotExited
    /\ dr_pc = "compile"

\* compile_file or compile_files returns the assembly text
CompileOk ==
    /\ dr_pc = "compile"
    /\ dr_pc' = "write"
    /\ UNCHANGED <<dr_args, dr_disk, dr_start, dr_tmp, dr_res, dr_failed, dr_exit>>
    /\ UNCHANGED drOthers

\* a phase raises an Exception (caught: sys.exit(1)), or the analyzer
\* calls sys.exit(1) itself
CompileRaises ==
    /\ dr_pc = "compile"
    /\ dr_failed' = TRUE
    /\ dr_exit' = 1
    /\ dr_pc' = "exited"
    /\ UNCHANGED <<dr_args, dr_disk, dr_start, dr_tmp, dr_res>>
    /\ UNCHANGED drOthers

\* -S: the assembly is written to out_s and main returns
WriteAssemblyOnly ==
    /\ dr_pc = "write"
    /\ dr_args.S
    /\ dr_disk' = dr_disk \cup {FinalOut(dr_args)}
    /\ dr_exit' = 0
    /\ dr_pc' = "exited"
    /\ UNCHANGED <<dr_args, dr_start, dr_tmp, dr_res, dr_failed>>
    /\ UNCHANGED drOthers

\* the assembly is written to s_file
WriteTmpAssembly ==
    /\ dr_pc = "write"
    /\ ~dr_args.S
    /\ dr_disk' = dr_disk \cup {s_file}
    /\ dr_tmp' = TRUE
    /\ dr_pc' = "assemble"
    /\ UNCHANGED <<dr_args, dr_start, dr_res, dr_failed, dr_exit>>
    /\ UNCHANGED drOthers

\* library mode: gcc -c s_file -o final_out, the clean-up, the exit
AssembleLibrary ==
    /\ dr_pc = "assemble"
    /\ dr_args.lib
    /\ \E returncode \in 0..MaxReturnCode :
          /\ dr_res' = returncode
          /\ dr_disk' = Remove(GccRun(dr_disk, FinalOut(dr_args), returncode), {s_file})
          /\ dr_exit' = returncode
    /\ dr_pc' = "exited"
    /\ UNCHANGED <<dr_args, dr_start, dr_tmp, dr_failed>>
    /\ UNCHANGED drOthers

\* executable mode: gcc -c s_file -o o_file, and the branch for a failure
AssembleObject ==
    /\ dr_pc = "assemble"
    /\ ~dr_args.lib
    /\ \E returncode \in 0..MaxReturnCode :
          /\ dr_res' = returncode
          /\ IF returncode # 0
             THEN /\ dr_disk' = Remove(GccRun(dr_disk, o_file, returncode), {s_file})
                  /\ dr_exit' = returncode
                  /\ dr_pc' = "exited"
             ELSE /\ dr_disk' = GccRun(dr_disk, o_file, returncode)
                  /\ dr_pc' = "link"
                  /\ UNCHANGED dr_exit
    /\ UNCHANGED <<dr_args, dr_start, dr_tmp, dr_failed>>
    /\ UNCHANGED drOthers

\* gcc o_file -o final_out, and the branch for a failure
LinkExecutable ==
    /\ dr_pc = "link"
    /\ \E returncode \in 0..MaxReturnCode :
          /\ dr_res' = returncode
          /\ IF returncode # 0
             THEN /\ dr_disk' = LinkFailedCleanup(GccRun(dr_disk, FinalOut(dr_args), returncode))
                  /\ dr_exit' = returncode
                  /\ dr_pc' = "exited"
             ELSE /\ dr_disk' = GccRun(dr_disk, FinalOut(dr_args), returncode)
                  /\ dr_pc' = "cleanup"
                  /\ UNCHANGED dr_exit
    /\ UNCHANGED <<dr_args, dr_start, dr_tmp, dr_failed>>
    /\ UNCHANGED drOthers

\* the removal of the intermediate files after a successful link
CleanUp ==
    /\ dr_pc = "cleanup"
    /\ dr_disk' = Remove(dr_disk, {s_file, o_file})
    /\ dr_exit' = 0
    /\ dr_pc' = "exited"
    /\ UNCHANGED <<dr_args, dr_start, dr_tmp, dr_res, dr_failed>>
    /\ UNCHANGED drOthers

DrNext ==
    \/ CompileOk
    \/ CompileRaises
    \/ WriteAssemblyOnly
    \/ WriteTmpAssembly
    \/ AssembleLibrary
    \/ AssembleObject
    \/ LinkExecutable
    \/ CleanUp

DrIdle ==
    /\ dr_args = [S |-> FALSE, lib |-> FALSE, output |-> FALSE]
    /\ dr_disk = {}
    /\ dr_start = {}
    /\ dr_tmp = FALSE
    /\ dr_res = 0
    /\ dr_failed = FALSE
    /\ dr_exit = NotExited
    /\ dr_pc = "idle"

FoldWidth == 4

Modulus == 2 ^ FoldWidth

MinInt == 0 - 2 ^ (FoldWidth - 1)

MaxInt == 2 ^ (FoldWidth - 1) - 1

\* the literals of a source text: NUMBER tokens, which carry no sign
FoldLiterals == {0, 1, 2, MaxInt}

FoldOps == {"+", "-", "*", "/", "<", ">", "==", "!=", "<=", ">="}

Number(n) == <<"number", n>>

Binop(op, left, right) == <<"binop", op, left, right>>

NotFolded == <<"none">>

\* a register holds its value modulo 2^FoldWidth, read as signed
Wrap(n) ==
    LET m == n % Modulus
    IN  IF m > MaxInt THEN m - Modulus ELSE m

Abs(n) == IF n < 0 THEN 0 - n ELSE n

\* idiv: the quotient truncated toward zero
Idiv(a, b) ==
    LET q == Abs(a) \div Abs(b)
    IN  IF (a < 0) = (b < 0) THEN q ELSE 0 - q

\* Python's lval // rval: the quotient rounded toward minus infinity
FloorDiv(a, b) ==
    LET q == Abs(a) \div Abs(b)
        exact == Abs(a) % Abs(b) = 0
    IN  IF (a < 0) = (b < 0) THEN q
        ELSE IF exact THEN 0 - q ELSE 0 - q - 1

Bool(b) == IF b THEN 1 ELSE 0

\* the comparison operators, the same in Python and after cmp / setCC / movzbq
Compare(op, a, b) ==
    CASE op = "<"  -> Bool(a < b)
      [] op = ">"  -> Bool(a > b)
      [] op = "==" -> Bool(a = b)
      [] op = "!=" -> Bool(a # b)
      [] op = "<=" -> Bool(a <= b)
      [] op = ">=" -> Bool(a >= b)

\* the try block of _opt_ast on two number nodes
FoldNumbers(op, left, right) ==
    LET lval == left[2]
        rval == right[2]
    IN  CASE op = "+" -> Number(lval + rval)
          [] op = "-" -> Number(lval - rval)
          [] op = "*" -> Number(lval * rval)
          [] op = "/" -> IF rval = 0 THEN Binop(op, left, right)
                         ELSE Number(FloorDiv(lval, rval))
          [] OTHER    -> Number(Compare(op, lval, rval))

RECURSIVE OptAst(_)
OptAst(ast) ==
    IF ast[1] = "binop"
    THEN LET op    == ast[2]
             left  == OptAst(ast[3])
             right == OptAst(ast[4])
         IN  IF left[1] = "number" /\ right[1] = "number"
             THEN FoldNumbers(op, left, right)
             ELSE Binop(op, left, right)
    ELSE ast

\* what running the emitted code gives: a value in %rax, a divide-error
\* trap, or no program at all when the assembler rejects an immediate
Value(v) == [kind |-> "value", rax |-> v]

Trap == [kind |-> "trap", rax |-> 0]

Rejected == [kind |-> "rejected", rax |-> 0]

\* `mov $N, %rax`: the assembler takes an immediate of magnitude below
\* 2^FoldWidth and keeps its low FoldWidth bits
MovImm(n) ==
    IF 0 - Modulus < n /\ n < Modulus THEN Value(Wrap(n)) ELSE Rejected

\* the integer operations on %rax and %rcx
IntOp(op, a, b) ==
    CASE op = "+" -> Value(Wrap(a + b))
      [] op = "-" -> Value(Wrap(a - b))
      [] op = "*" -> Value(Wrap(a * b))
      [] op = "/" -> IF b = 0 \/ (a = MinInt /\ b = 0 - 1) THEN Trap
                     ELSE Value(Idiv(a, b))
      [] OTHER    -> Value(Compare(op, a, b))

\* gen_expr on a number or an integer binop: the right operand is evaluated
\* and pushed, then the left operand, then the operation
RECURSIVE GenExpr(_)
GenExpr(node) ==
    IF node[1] = "number" THEN MovImm(node[2])
    ELSE LET r == GenExpr(node[4])
             l == GenExpr(node[3])
         IN  IF r.kind = "rejected" \/ l.kind = "rejected" THEN Rejected
             ELSE IF r.kind = "trap" \/ l.kind = "trap" THEN Trap
             ELSE IntOp(node[2], l.rax, r.rax)

\* a op b, (a op b) op c and a op (b op c) over the literals
FoldExprs ==
    LET leaf == { Number(n) : n \in FoldLiterals }
        flat == { Binop(op, a, b) : op \in FoldOps, a \in leaf, b \in leaf }
        inner == { Binop(op, a, b) : op \in {"+", "-", "*", "/"}, a \in leaf, b \in leaf }
    IN  flat
        \cup { Binop(op, e, c) : op \in FoldOps, e \in inner, c \in leaf }
        \cup { Binop(op, c, e) : op \in FoldOps, e \in inner, c \in leaf }

CfInit ==
    /\ cf_expr \in FoldExprs
    /\ cf_opt = NotFolded
    /\ cf_raw = Rejected
    /\ cf_fold = Rejected
    /\ cf_pc = "optimize"

\* opt.optimize_ast(stripped_ast)
OptimizeAst ==
    /\ cf_pc = "optimize"
    /\ cf_opt' = OptAst(cf_expr)
    /\ cf_pc' = "generate"
    /\ UNCHANGED <<cf_expr, cf_raw, cf_fold>>
    /\ UNCHANGED cfOthers

\* cg.generate(optimized_ast), assembled and run
RunFolded ==
    /\ cf_pc = "generate"
    /\ cf_fold' = GenExpr(cf_opt)
    /\ cf_pc' = "reference"
    /\ UNCHANGED <<cf_expr, cf_opt, cf_raw>>
    /\ UNCHANGED cfOthers

\* the code generated for the expression as parsed, assembled and run
RunUnfolded ==
    /\ cf_pc = "reference"
    /\ cf_raw' = GenExpr(cf_expr)
    /\ cf_pc' = "done"
    /\ UNCHANGED <<cf_expr, cf_opt, cf_fold>>
    /\ UNCHANGED cfOthers

CfNext == OptimizeAst \/ RunFolded \/ RunUnfolded

CfIdle ==
    /\ cf_expr = NotFolded /\ cf_opt = NotFolded
    /\ cf_raw = Rejected /\ cf_fold = Rejected /\ cf_pc = "idle"

\* C29: constant folding preserves run-time values: whenever _opt_ast folds
\* an expression over integer literals, operands that are folded results
\* included, and the unfolded code computes a value in %rax, the folded
\* literal loads that same value; a division by the literal 0 stays unfolded.
C29_FoldPreserves ==
    cf_pc = "done" =>
        /\ (cf_opt # cf_expr /\ cf_raw.kind = "value") => cf_fold = cf_raw
        /\ (cf_expr[2] = "/" /\ cf_expr[4] = Number(0)) => cf_opt[1] = "binop"

(***************************************************************************)
(* Labels: the local labels and lambda symbols that CodeGen.generate       *)
(* defines while it walks functions, nested statements and lambdas.        *)
(***************************************************************************)
MaxLabelStmts == 3

MaxLabelDepth == 2

MaxSwitchCases == 1

NoIndex == 0 - 1

\* f".L<family>_<n>", and f".Lcase_<n>_<i>" with its case index
Lbl(family, n) == [family |-> family, n |-> n, i |-> NoIndex]

CaseLbl(n, i) == [family |-> "case", n |-> n, i |-> i]

LambdaName(k) == [family |-> "__lambda", n |-> k, i |-> NoIndex]

\* a statement being generated: the labels it still has to define, each
\* held in a local variable since the statement was entered
StmtFrame(pending) == [kind |-> "stmt", pending |-> pending, saved_text |-> << >>]

\* a lambda being generated: the text it interrupted
LambdaFrame(saved) == [kind |-> "lambda", pending |-> << >>, saved_text |-> saved]

\* a closing label re-read from label_count when the body has been generated
ClosingLabelRecomputed(frame, count) ==
    [frame.pending[1] EXCEPT !.n = count]

\* the next label a statement defines: the name computed on entry
ClosingLabel(frame, count) == frame.pending[1]

LbCanOpen ==
    /\ lb_pc = "gen"
    /\ lb_stmts < MaxLabelStmts
    /\ Len(lb_stack) < MaxLabelDepth

\* a statement: label_count += 1, the labels defined before its first body,
\* and the labels left for after it (none for a switch with no case and no
\* default, which has no body)
OpenStmt(now, pending) ==
    /\ lb_label_count' = lb_label_count + 1
    /\ lb_text' = lb_text \o now
    /\ lb_stack' = IF pending = << >> THEN lb_stack
                   ELSE Append(lb_stack, StmtFrame(pending))
    /\ lb_stmts' = lb_stmts + 1
    /\ UNCHANGED <<lb_lambda_count, lb_lambda_funcs, lb_out, lb_pc>>
    /\ UNCHANGED lbOthers

EmitWhile ==
    /\ LbCanOpen
    /\ LET n == lb_label_count + 1
       IN  OpenStmt(<< Lbl("while_cond", n) >>, << Lbl("while_end", n) >>)

EmitDoWhile ==
    /\ LbCanOpen
    /\ LET n == lb_label_count + 1
       IN  OpenStmt(<< Lbl("do_start", n) >>, << Lbl("do_end", n) >>)

EmitFor ==
    /\ LbCanOpen
    /\ LET n == lb_label_count + 1
       IN  OpenStmt(<< Lbl("for_cond", n) >>, << Lbl("for_end", n) >>)

EmitForeach ==
    /\ LbCanOpen
    /\ LET n == lb_label_count + 1
       IN  OpenStmt(<< Lbl("foreach_cond", n) >>, << Lbl("foreach_end", n) >>)

\* if with or without an else body
EmitIf ==
    /\ LbCanOpen
    /\ \E has_else \in BOOLEAN :
         LET n == lb_label_count + 1
         IN  OpenStmt(<< >>,
                      (IF has_else THEN << Lbl("else", n) >> ELSE << >>)
                          \o << Lbl("end", n) >>)

\* switch: the case labels, the default label when there is a default body,
\* and the end label, all named from label_count on entry; the first of
\* them is defined before the first body
EmitSwitch ==
    /\ LbCanOpen
    /\ \E cases \in 0..MaxSwitchCases, has_default \in BOOLEAN :
         LET n == lb_label_count + 1
             labels == [i \in 1..cases |-> CaseLbl(n, i - 1)]
                          \o (IF has_default THEN << Lbl("default", n) >> ELSE << >>)
                          \o << Lbl("switch_end", n) >>
         IN  OpenStmt(<< Head(labels) >>, Tail(labels))

\* arr.push(x): two labels, each from its own increment of label_count
EmitPush ==
    /\ lb_pc = "gen"
    /\ lb_stmts < MaxLabelStmts
    /\ lb_label_count' = lb_label_count + 2
    /\ lb_text' = lb_text \o << Lbl("cap_ok", lb_label_count + 2),
                                Lbl("skip_grow", lb_label_count + 1) >>
    /\ lb_stmts' = lb_stmts + 1
    /\ UNCHANGED <<lb_lambda_count, lb_lambda_funcs, lb_stack, lb_out, lb_pc>>
    /\ UNCHANGED lbOthers

\* a lambda expression: lambda_count += 1, and a fresh text that starts with
\* the lambda's symbol
EmitLambda ==
    /\ LbCanOpen
    /\ lb_lambda_count' = lb_lambda_count + 1
    /\ lb_text' = << LambdaName(lb_lambda_count + 1) >>
    /\ lb_stack' = Append(lb_stack, LambdaFrame(lb_text))
    /\ lb_stmts' = lb_stmts + 1
    /\ UNCHANGED <<lb_label_count, lb_lambda_funcs, lb_out, lb_pc>>
    /\ UNCHANGED lbOthers

\* the end of a body: the statement defines its next label, and is left
\* when that was its last
EmitBodyEnd ==
    /\ lb_pc = "gen"
    /\ lb_stack # << >>
    /\ LET frame == lb_stack[Len(lb_stack)]
           below == SubSeq(lb_stack, 1, Len(lb_stack) - 1)
       IN  /\ frame.kind = "stmt"
           /\ lb_text' = Append(lb_text, ClosingLabel(frame, lb_label_count))
           /\ lb_stack' = IF Len(frame.pending) = 1 THEN below
                          ELSE Append(below, StmtFrame(Tail(frame.pending)))
    /\ UNCHANGED <<lb_label_count, lb_lambda_count, lb_lambda_funcs, lb_stmts,
                   lb_out, lb_pc>>
    /\ UNCHANGED lbOthers

\* the end of a lambda body: its text is stored and the saved text restored
EmitLambdaEnd ==
    /\ lb_pc = "gen"
    /\ lb_stack # << >>
    /\ LET frame == lb_stack[Len(lb_stack)]
       IN  /\ frame.kind = "lambda"
           /\ lb_lambda_funcs' = Append(lb_lambda_funcs, lb_text)
           /\ lb_text' = frame.saved_text
           /\ lb_stack' = SubSeq(lb_stack, 1, Len(lb_stack) - 1)
    /\ UNCHANGED <<lb_label_count, lb_lambda_count, lb_stmts, lb_out, lb_pc>>
    /\ UNCHANGED lbOthers

RECURSIVE Flatten(_)
Flatten(texts) ==
    IF texts = << >> THEN << >> ELSE Head(texts) \o Flatten(Tail(texts))

\* generate: the text, then every lambda's text
EmitOutput ==
    /\ lb_pc = "gen"
    /\ lb_stack = << >>
    /\ lb_out' = lb_text \o Flatten(lb_lambda_funcs)
    /\ lb_pc' = "done"
    /\ UNCHANGED <<lb_label_count, lb_lambda_count, lb_text, lb_lambda_funcs,
                   lb_stack, lb_stmts>>
    /\ UNCHANGED lbOthers

LbInit ==
    /\ lb_label_count = 0
    /\ lb_lambda_count = 0
    /\ lb_text = << >>
    /\ lb_lambda_funcs = << >>
    /\ lb_stack = << >>
    /\ lb_stmts = 0
    /\ lb_out = << >>
    /\ lb_pc = "gen"

LbNext ==
    \/ EmitWhile
    \/ EmitDoWhile
    \/ EmitFor
    \/ EmitForeach
    \/ EmitIf
    \/ EmitSwitch
    \/ EmitPush
    \/ EmitLambda
    \/ EmitBodyEnd
    \/ EmitLambdaEnd
    \/ EmitOutput

LbIdle ==
    /\ lb_label_count = 0 /\ lb_lambda_count = 0 /\ lb_text = << >>
    /\ lb_lambda_funcs = << >> /\ lb_stack = << >> /\ lb_stmts = 0
    /\ lb_out = << >> /\ lb_pc = "idle"

NoDuplicates(seq) == \A i, j \in 1..Len(seq) : seq[i] = seq[j] => i = j

\* every label defined so far, in the text, in the texts that lambdas
\* interrupted, and in the finished lambdas
DefinedSoFar ==
    lb_text
        \o Flatten([k \in 1..Len(lb_stack) |-> lb_stack[k].saved_text])
        \o Flatten(lb_lambda_funcs)

InitRange == RangeInit /\ OptIdle /\ ArrIdle /\ CgIdle /\ BcIdle /\ AnIdle /\ NsIdle /\ StIdle /\ TcIdle /\ ScIdle /\ GvIdle /\ FnIdle /\ SwIdle /\ FeIdle /\ PwIdle /\ CaIdle /\ DdIdle /\ LxIdle /\ McIdle /\ DrIdle /\ CfIdle /\ LbIdle

SpecRange == InitRange /\ [][RangeNext]_vars

InitOpt == OptInit /\ RangeIdle /\ ArrIdle /\ CgIdle /\ BcIdle /\ AnIdle /\ NsIdle /\ StIdle /\ TcIdle /\ ScIdle /\ GvIdle /\ FnIdle /\ SwIdle /\ FeIdle /\ PwIdle /\ CaIdle /\ DdIdle /\ LxIdle /\ McIdle /\ DrIdle /\ CfIdle /\ LbIdle

SpecOpt == InitOpt /\ [][OptNext]_vars

InitArray == ArrInit /\ RangeIdle /\ OptIdle /\ CgIdle /\ BcIdle /\ AnIdle /\ NsIdle /\ StIdle /\ TcIdle /\ ScIdle /\ GvIdle /\ FnIdle /\ SwIdle /\ FeIdle /\ PwIdle /\ CaIdle /\ DdIdle /\ LxIdle /\ McIdle /\ DrIdle /\ CfIdle /\ LbIdle

SpecArray == InitArray /\ [][ArrNext]_vars

InitBreakGen == CgInit /\ OptIdle /\ ArrIdle /\ RangeIdle /\ BcIdle /\ AnIdle /\ NsIdle /\ StIdle /\ TcIdle /\ ScIdle /\ GvIdle /\ FnIdle /\ SwIdle /\ FeIdle /\ PwIdle /\ CaIdle /\ DdIdle /\ LxIdle /\ McIdle /\ DrIdle /\ CfIdle /\ LbIdle

SpecBreakGen == InitBreakGen /\ [][CgNext]_vars

InitBreakCheck == BcInit /\ OptIdle /\ ArrIdle /\ CgIdle /\ RangeIdle /\ AnIdle /\ NsIdle /\ StIdle /\ TcIdle /\ ScIdle /\ GvIdle /\ FnIdle /\ SwIdle /\ FeIdle /\ PwIdle /\ CaIdle /\ DdIdle /\ LxIdle /\ McIdle /\ DrIdle /\ CfIdle /\ LbIdle

SpecBreakCheck == InitBreakCheck /\ [][BcNext]_vars

InitAnalyze == AnInit /\ OptIdle /\ ArrIdle /\ CgIdle /\ BcIdle /\ RangeIdle /\ NsIdle /\ StIdle /\ TcIdle /\ ScIdle /\ GvIdle /\ FnIdle /\ SwIdle /\ FeIdle /\ PwIdle /\ CaIdle /\ DdIdle /\ LxIdle /\ McIdle /\ DrIdle /\ CfIdle /\ LbIdle

SpecAnalyze == InitAnalyze /\ [][AnNext]_vars

InitNamespace == NsInit /\ OptIdle /\ ArrIdle /\ CgIdle /\ BcIdle /\ AnIdle /\ RangeIdle /\ StIdle /\ TcIdle /\ ScIdle /\ GvIdle /\ FnIdle /\ SwIdle /\ FeIdle /\ PwIdle /\ CaIdle /\ DdIdle /\ LxIdle /\ McIdle /\ DrIdle /\ CfIdle /\ LbIdle

SpecNamespace == InitNamespace /\ [][NsNext]_vars

InitStruct == StInit /\ OptIdle /\ ArrIdle /\ CgIdle /\ BcIdle /\ AnIdle /\ NsIdle /\ RangeIdle /\ TcIdle /\ ScIdle /\ GvIdle /\ FnIdle /\ SwIdle /\ FeIdle /\ PwIdle /\ CaIdle /\ DdIdle /\ LxIdle /\ McIdle /\ DrIdle /\ CfIdle /\ LbIdle

SpecStruct == InitStruct /\ [][StNext]_vars

InitCompat == TcInit /\ OptIdle /\ ArrIdle /\ CgIdle /\ BcIdle /\ AnIdle /\ NsIdle /\ StIdle /\ RangeIdle /\ ScIdle /\ GvIdle /\ FnIdle /\ SwIdle /\ FeIdle /\ PwIdle /\ CaIdle /\ DdIdle /\ LxIdle /\ McIdle /\ DrIdle /\ CfIdle /\ LbIdle

SpecCompat == InitCompat /\ [][TcNext]_vars

InitScope == ScInit /\ OptIdle /\ ArrIdle /\ CgIdle /\ BcIdle /\ AnIdle /\ NsIdle /\ StIdle /\ TcIdle /\ RangeIdle /\ GvIdle /\ FnIdle /\ SwIdle /\ FeIdle /\ PwIdle /\ CaIdle /\ DdIdle /\ LxIdle /\ McIdle /\ DrIdle /\ CfIdle /\ LbIdle

SpecScope == InitScope /\ [][ScNext]_vars

InitGlobals == GvInit /\ OptIdle /\ ArrIdle /\ CgIdle /\ BcIdle /\ AnIdle /\ NsIdle /\ StIdle /\ TcIdle /\ ScIdle /\ RangeIdle /\ FnIdle /\ SwIdle /\ FeIdle /\ PwIdle /\ CaIdle /\ DdIdle /\ LxIdle /\ McIdle /\ DrIdle /\ CfIdle /\ LbIdle

SpecGlobals == InitGlobals /\ [][GvNext]_vars

InitFunc == FnInit /\ OptIdle /\ ArrIdle /\ CgIdle /\ BcIdle /\ AnIdle /\ NsIdle /\ StIdle /\ TcIdle /\ ScIdle /\ GvIdle /\ RangeIdle /\ SwIdle /\ FeIdle /\ PwIdle /\ CaIdle /\ DdIdle /\ LxIdle /\ McIdle /\ DrIdle /\ CfIdle /\ LbIdle

SpecFunc == InitFunc /\ [][FnNext]_vars

InitSwitch == SwInit /\ OptIdle /\ ArrIdle /\ CgIdle /\ BcIdle /\ AnIdle /\ NsIdle /\ StIdle /\ TcIdle /\ ScIdle /\ GvIdle /\ FnIdle /\ RangeIdle /\ FeIdle /\ PwIdle /\ CaIdle /\ DdIdle /\ LxIdle /\ McIdle /\ DrIdle /\ CfIdle /\ LbIdle

\* the processor keeps executing the emitted lines
SpecSwitch == InitSwitch /\ [][SwNext]_vars /\ WF_vars(SwNext)

InitForeach == FeInit /\ OptIdle /\ ArrIdle /\ CgIdle /\ BcIdle /\ AnIdle /\ NsIdle /\ StIdle /\ TcIdle /\ ScIdle /\ GvIdle /\ FnIdle /\ SwIdle /\ RangeIdle /\ PwIdle /\ CaIdle /\ DdIdle /\ LxIdle /\ McIdle /\ DrIdle /\ CfIdle /\ LbIdle

\* the processor keeps executing the emitted lines
SpecForeach == InitForeach /\ [][FeNext]_vars /\ WF_vars(FeNext)

InitWindow == PwInit /\ OptIdle /\ ArrIdle /\ CgIdle /\ BcIdle /\ AnIdle /\ NsIdle /\ StIdle /\ TcIdle /\ ScIdle /\ GvIdle /\ FnIdle /\ SwIdle /\ FeIdle /\ RangeIdle /\ CaIdle /\ DdIdle /\ LxIdle /\ McIdle /\ DrIdle /\ CfIdle /\ LbIdle

SpecWindow == InitWindow /\ [][PwNext]_vars

InitCall == CaInit /\ OptIdle /\ ArrIdle /\ CgIdle /\ BcIdle /\ AnIdle /\ NsIdle /\ StIdle /\ TcIdle /\ ScIdle /\ GvIdle /\ FnIdle /\ SwIdle /\ FeIdle /\ PwIdle /\ RangeIdle /\ DdIdle /\ LxIdle /\ McIdle /\ DrIdle /\ CfIdle /\ LbIdle

SpecCall == InitCall /\ [][CaNext]_vars

InitDecls == DdInit /\ OptIdle /\ ArrIdle /\ CgIdle /\ BcIdle /\ AnIdle /\ NsIdle /\ StIdle /\ TcIdle /\ ScIdle /\ GvIdle /\ FnIdle /\ SwIdle /\ FeIdle /\ PwIdle /\ CaIdle /\ RangeIdle /\ LxIdle /\ McIdle /\ DrIdle /\ CfIdle /\ LbIdle

SpecDecls == InitDecls /\ [][DdNext]_vars

InitLex == LxInit /\ OptIdle /\ ArrIdle /\ CgIdle /\ BcIdle /\ AnIdle /\ NsIdle /\ StIdle /\ TcIdle /\ ScIdle /\ GvIdle /\ FnIdle /\ SwIdle /\ FeIdle /\ PwIdle /\ CaIdle /\ DdIdle /\ RangeIdle /\ McIdle /\ DrIdle /\ CfIdle /\ LbIdle

SpecLex == InitLex /\ [][LxNext]_vars

InitMacro == McInit /\ OptIdle /\ ArrIdle /\ CgIdle /\ BcIdle /\ AnIdle /\ NsIdle /\ StIdle /\ TcIdle /\ ScIdle /\ GvIdle /\ FnIdle /\ SwIdle /\ FeIdle /\ PwIdle /\ CaIdle /\ DdIdle /\ LxIdle /\ RangeIdle /\ DrIdle /\ CfIdle /\ LbIdle

SpecMacro == InitMacro /\ [][McNext]_vars

InitDriver == DrInit /\ OptIdle /\ ArrIdle /\ CgIdle /\ BcIdle /\ AnIdle /\ NsIdle /\ StIdle /\ TcIdle /\ ScIdle /\ GvIdle /\ FnIdle /\ SwIdle /\ FeIdle /\ PwIdle /\ CaIdle /\ DdIdle /\ LxIdle /\ McIdle /\ RangeIdle /\ CfIdle /\ LbIdle

SpecDriver == InitDriver /\ [][DrNext]_vars

InitFold == CfInit /\ OptIdle /\ ArrIdle /\ CgIdle /\ BcIdle /\ AnIdle /\ NsIdle /\ StIdle /\ TcIdle /\ ScIdle /\ GvIdle /\ FnIdle /\ SwIdle /\ FeIdle /\ PwIdle /\ CaIdle /\ DdIdle /\ LxIdle /\ McIdle /\ DrIdle /\ RangeIdle /\ LbIdle

SpecFold == InitFold /\ [][CfNext]_vars

InitLabels == LbInit /\ OptIdle /\ ArrIdle /\ CgIdle /\ BcIdle /\ AnIdle /\ NsIdle /\ StIdle /\ TcIdle /\ ScIdle /\ GvIdle /\ FnIdle /\ SwIdle /\ FeIdle /\ PwIdle /\ CaIdle /\ DdIdle /\ LxIdle /\ McIdle /\ DrIdle /\ CfIdle /\ RangeIdle

SpecLabels == InitLabels /\ [][LbNext]_vars

Spec == SpecRange

=============================================================================
